---- MODULE Spec2Model ----
(***************************************************************************)
(* Model of the scraper engine (lib/scraperEngine.ts): scrapePage, the     *)
(* per-page field extractor, and runScraper, the pagination walker that    *)
(* drives one Puppeteer browser through up to maxDepth pages.              *)
(*                                                                         *)
(* Strings whose content the code inspects (CSS selectors, element text)   *)
(* are sequences over a two-letter alphabet: a blank and a non-blank       *)
(* character.  Field names are only used as keys and stay strings.         *)
(* Every Puppeteer call is a step whose outcome (resolve / reject, value)  *)
(* is chosen nondeterministically; browser.close() resolves.               *)
(***************************************************************************)
EXTENDS Integers, Sequences, FiniteSets, TLC

\* ---------------------------------------------------------------- bounds
MaxDepthBound == 3      \* largest maxDepth a job carries
NegDepthBound == 1      \* jobs carry maxDepth down to -NegDepthBound
MaxSelectors == 2       \* longest selector list of a job

\* ---------------------------------------------------------------- strings
Blank == " "
Letter == "x"

RECURSIVE SeqsUpTo(_, _)
SeqsUpTo(S, n) ==
    IF n = 0 THEN {<<>>}
    ELSE LET shorter == SeqsUpTo(S, n - 1)
         IN  shorter \cup {Append(s, c) : s \in {t \in shorter : Len(t) = n - 1}, c \in S}

RECURSIVE TrimStart(_)
TrimStart(s) ==
    IF s = <<>> THEN <<>>
    ELSE IF Head(s) = Blank THEN TrimStart(Tail(s)) ELSE s

RECURSIVE TrimEnd(_)
TrimEnd(s) ==
    IF s = <<>> THEN <<>>
    ELSE IF s[Len(s)] = Blank THEN TrimEnd(SubSeq(s, 1, Len(s) - 1)) ELSE s

\* String.prototype.trim
Trim(s) == TrimEnd(TrimStart(s))

\* ---------------------------------------------------------------- values
\* ScrapedDataItem values: string | null
Null == [isNull |-> TRUE, text |-> <<>>]
Str(t) == [isNull |-> FALSE, text |-> t]

\* variant: the empty string is kept as a value
TrimmedTextKeepEmpty(elementText) ==
    IF elementText.isNull THEN Null ELSE Str(Trim(elementText.text))

\* elementText?.trim() || null : textContent may be null; "" is falsy
TrimmedText(elementText) ==
    IF elementText.isNull THEN Null
    ELSE IF Trim(elementText.text) = <<>> THEN Null
    ELSE Str(Trim(elementText.text))

\* ---------------------------------------------------------------- jobs
FieldNames == {"a", "b"}
CssSelectors == {<<Blank>>, <<Letter>>}
Selector == [fieldName : FieldNames, cssSelector : CssSelectors]
SelectorLists == {s \in SeqsUpTo(Selector, MaxSelectors) : Len(s) >= 1}
NextSelectors == {<<>>, <<Letter>>}
Urls == {"https://a.example/list"}
Depths == (0 - NegDepthBound) .. MaxDepthBound

\* ScraperConfig as the engine reads it; the optional members carry a
\* presence flag, an absent member has the filler value 0 / <<>>.
ScraperConfig ==
    {c \in [url : Urls, paginationEnabled : BOOLEAN,
            hasMaxDepth : BOOLEAN, maxDepth : Depths,
            hasNextSelector : BOOLEAN, paginationNextSelector : NextSelectors,
            selectors : SelectorLists] :
        /\ (~c.hasMaxDepth => c.maxDepth = 0)
        /\ (~c.hasNextSelector => c.paginationNextSelector = <<>>)}

\* JavaScript truthiness of the two optional members
TruthyMaxDepth(c) == c.hasMaxDepth /\ c.maxDepth # 0
TruthyNextSelector(c) == c.hasNextSelector /\ c.paginationNextSelector # <<>>

\* variant: the depth is taken from the job whether or not it paginates
EffectiveMaxDepthAnyJob(c) ==
    IF TruthyMaxDepth(c) THEN c.maxDepth ELSE 1

\* variant: a paginating job without maxDepth walks as far as it can
EffectiveMaxDepthAbsentUnbounded(c) ==
    IF ~c.paginationEnabled THEN 1
    ELSE IF TruthyMaxDepth(c) THEN c.maxDepth ELSE MaxDepthBound

\* const maxDepth = paginationEnabled && config.maxDepth ? config.maxDepth : 1
EffectiveMaxDepth(c) ==
    IF c.paginationEnabled /\ TruthyMaxDepth(c) THEN c.maxDepth ELSE 1

\* variant: the advance is tried whatever the next selector
ShouldAdvanceAnySelector(c, pageNum, depth) ==
    c.paginationEnabled /\ pageNum < depth

\* variant: the advance is also tried on the last page
ShouldAdvanceInclusive(c, pageNum, depth) ==
    c.paginationEnabled /\ TruthyNextSelector(c) /\ pageNum <= depth

\* the condition of the advance branch of the loop
ShouldAdvance(c, pageNum, depth) ==
    c.paginationEnabled /\ TruthyNextSelector(c) /\ pageNum < depth

\* ---------------------------------------------------------------- scrapePage
\* textContent of the matched element: null, empty, blank, bare text and
\* text with blanks around it
SampleTexts == {<<>>, <<Blank>>, <<Letter>>, <<Blank, Letter, Blank>>}
ElementTexts == {Str(t) : t \in SampleTexts} \cup {Null}

\* what the page does for one field: waitForSelector times out, $eval
\* rejects, or $eval resolves with the element's textContent
FieldOutcomes ==
    {[kind |-> "timeout", text |-> Null], [kind |-> "evalFail", text |-> Null]}
        \cup {[kind |-> "text", text |-> t] : t \in ElementTexts}

\* variant: a name that is already in the item keeps its first value
SetFieldKeepFirst(data, name, value) ==
    [n \in DOMAIN data \cup {name} |-> IF n \in DOMAIN data THEN data[n] ELSE value]

\* scrapedData[selectorConfig.fieldName] = value
SetField(data, name, value) ==
    [n \in DOMAIN data \cup {name} |-> IF n = name THEN value ELSE data[n]]

\* variant: only the empty selector is skipped, a selector of blanks is not
EmptySelectorUntrimmed(sel) == sel.cssSelector = <<>>

\* if (!selectorConfig.cssSelector.trim())
EmptySelector(sel) == Trim(sel.cssSelector) = <<>>

\* variant: a failing field discards what the earlier fields gave
ScrapeFieldAbort(st, sel, outcome) ==
    IF EmptySelector(sel)
    THEN [data |-> SetField(st.data, sel.fieldName, Null), hasData |-> st.hasData]
    ELSE IF outcome.kind # "text"
    THEN [data |-> [n \in DOMAIN st.data \cup {sel.fieldName} |-> Null],
          hasData |-> FALSE]
    ELSE [data |-> SetField(st.data, sel.fieldName, TrimmedText(outcome.text)),
          hasData |-> st.hasData \/ ~TrimmedText(outcome.text).isNull]

\* one iteration of the for loop of scrapePage on the pair (scrapedData, hasData)
ScrapeField(st, sel, outcome) ==
    IF EmptySelector(sel)
    THEN [data |-> SetField(st.data, sel.fieldName, Null), hasData |-> st.hasData]
    ELSE IF outcome.kind # "text"
    THEN [data |-> SetField(st.data, sel.fieldName, Null), hasData |-> st.hasData]
    ELSE [data |-> SetField(st.data, sel.fieldName, TrimmedText(outcome.text)),
          hasData |-> st.hasData \/ ~TrimmedText(outcome.text).isNull]

EmptyItem == [n \in {} |-> Null]
ScrapeStart == [data |-> EmptyItem, hasData |-> FALSE]

\* return hasData ? [scrapedData] : []
PageData(st) == IF st.hasData THEN <<st.data>> ELSE <<>>

\* ---------------------------------------------------------------- errors
\* error.message of the rejection of a Puppeteer call: opaque to the engine
Messages == {"Failed to launch the browser process",
             "Navigation timeout of 60000 ms exceeded"}

NoError == <<>>

\* variant: the wrapped error leaves the URL out
WrapErrorNoUrl(url, message) == <<"Scraping failed: ", message>>

\* new Error(`Scraping failed for ${config.url}: ${error.message || error}`)
WrapError(url, message) == <<"Scraping failed for ", url, ": ", message>>

\* a request without a JSON body; no request served yet
NoBody == [none |-> TRUE]
NoRequest == [endpoint |-> "none", body |-> NoBody, id |-> 0]

\* const itemCount = scrapedDataItems.length has not been reached
NoItemCount == 0 - 1

\* two invocations of runScraper side by side
RunIds == {1, 2}

\* an invocation before its first statement
RunStart == [pc |-> "launch", page |-> 0, pageNum |-> 0, data |-> <<>>,
             thrown |-> FALSE]

\* a call of scrapePage before its first selector
ExtractionStart == [at |-> 1, st |-> ScrapeStart, answers |-> <<>>,
                    calls |-> <<>>, returned |-> <<>>, done |-> FALSE]

\* the two handlers of the run route serving requests side by side
HandlerIds == {1, 2}

\* no Date: lastRunAt of a scraper that never ran, runAt not yet taken
NoDate == 0

\* findOne finds no document under the id
NoDocument == [none |-> TRUE]

\* a handler of the run route between two requests
HandlerStart == [pc |-> "idle", status |-> "none", count |-> NoItemCount,
                 runAt |-> NoDate, runId |-> 0, message |-> "none",
                 answered |-> 0, engine |-> "none", wrote |-> "none",
                 overlap |-> FALSE]

\* the test-run route between two requests
TestRunStart == [pc |-> "idle", body |-> NoBody, engineCalls |-> 0,
                 items |-> <<>>, answered |-> 0, itemCount |-> NoItemCount,
                 data |-> <<>>]

\* undefined: no client, no database, no property of that name
Undefined == 0

\* the callers of connectToDatabase that may be under way at once
CallIds == {1, 2}

\* a caller outside connectToDatabase
CallStart == [pc |-> "idle", client |-> Undefined, returned |-> Undefined,
              threw |-> FALSE]

\* useState(...) of NewScraperPage
WizardStart ==
    [currentStep |-> 1, url |-> <<>>, scrapeMode |-> "simple",
     selectors |-> <<[fieldName |-> <<>>, cssSelector |-> <<>>]>>,
     paginationEnabled |-> FALSE, paginationNextSelector |-> <<>>,
     maxDepth |-> 5]

\* useState(...) of DashboardPage, before the effect has run; of runStates
\* the keys whose entry has loading: true, and whether there is a global entry
DashboardStart ==
    [scrapers |-> <<>>, isLoading |-> TRUE, runStates |-> {},
     global |-> FALSE, fetching |-> FALSE]

\* ---------------------------------------------------------------- state
VARIABLES
    config,          \* the job handed to runScraper
    pc,              \* position of runScraper
    browser,         \* TRUE once puppeteer.launch resolved
    thrown,          \* an error is propagating out of the try block
    failedStage,     \* the call whose rejection is propagating
    outcome,         \* "running", "returned" or "error"
    result,          \* the array handed to the caller
    allScrapedData, currentPageNum, maxDepth,
    scrape,          \* (scrapedData, hasData) of the running scrapePage
    fieldIdx,        \* index of the selector scrapePage is at
    twin,            \* scrapePage on a page that answers one selector otherwise
    twinAt,          \* index of that selector, 0 while the two pages agree
    navState, clickState,   \* the two promises of Promise.all
    ops,             \* how often each session call was issued
    pageRecs,        \* what each visited page contributed
    advanceFailedAt, \* page from which advancing failed, 0 if none
    advanceFailure,  \* which call of the advance failed
    failed,          \* the calls that rejected or timed out
    error,           \* the Error thrown to the caller, NoError if none
    terminated,      \* the caller killed the browser under the run
    fieldWaits,      \* waitForSelector calls per selector on this page
    navSync,         \* the navigation completed in step with the click
    scrapers,        \* the scrapers collection: the stored configurations, by id
    request,         \* the request the routes served last
    response,        \* the HTTP status answered to it
    engineCalls,     \* the configurations it handed to runScraper
    itemCount,       \* itemCount of the run route, NoItemCount while unset
    scrapedData,     \* the scrapedData collection: one document per run
    runs,            \* the invocations of runScraper under way side by side
    browserVar,      \* the variable browser of each invocation
    sessions,        \* the browsers puppeteer.launch has started
    extraction,      \* one call of scrapePage looked at on its own
    scraperDoc,      \* the document of the scrapers collection the requests name
    runDocs,         \* the scrapedData collection the handlers insert into
    handlers,        \* position and locals of each handler of the run route
    requests,        \* run requests received so far
    now,             \* the clock new Date() reads
    testRun,         \* the request the test-run route is serving
    cachedClient, cachedDb,   \* the module cache of lib/db/mongodb
    customGlobal,    \* mongoClient and mongoDb of globalThis
    clients,         \* the MongoClients created so far
    calls,           \* the calls of connectToDatabase under way
    wizard,          \* the state of NewScraperPage
    dashboard,       \* the state of DashboardPage
    scrapersDocs,    \* the scrapers collection GET /api/scrapers reads
    activated,       \* _id of the scrapers whose Run Now was activated
    posted           \* the ids in the URLs of the POSTs the dashboard issued

\* the state of one run of the engine
walkerVars == <<config, pc, browser, thrown, failedStage, outcome, result,
                allScrapedData, currentPageNum, maxDepth, scrape, fieldIdx, twin,
                twinAt, navState, clickState, ops, pageRecs, advanceFailedAt,
                advanceFailure, failed, error, terminated, fieldWaits, navSync>>

\* the state of the API routes
apiVars == <<scrapers, request, response, engineCalls, itemCount,
            scrapedData>>

\* the state of runScraper invocations running side by side
runsVars == <<runs, browserVar, sessions>>

\* the state of a call of scrapePage followed selector by selector
extractVars == <<extraction>>

\* the state of run requests served side by side
handlerVars == <<scraperDoc, runDocs, handlers, requests, now>>

\* the state of the test-run route followed step by step
testRunVars == <<testRun>>

\* the state of the database module
mongoVars == <<cachedClient, cachedDb, customGlobal, clients, calls>>

\* the state of the configuration wizard
wizardVars == <<wizard>>

\* the state of the dashboard
dashboardVars == <<dashboard, scrapersDocs, activated, posted>>

\* the state of the handlers, modules and pages followed step by step
appVars == <<handlerVars, testRunVars, mongoVars, wizardVars, dashboardVars>>

\* the state of the engine, the routes and the invocations of runScraper
coreVars == <<walkerVars, apiVars, runsVars, extractVars>>

\* all but the run requests served side by side
notHandlerVars == <<coreVars, testRunVars, mongoVars, wizardVars,
                    dashboardVars>>

\* all but the test-run route
notTestRunVars == <<coreVars, handlerVars, mongoVars, wizardVars,
                    dashboardVars>>

\* all but the database module
notMongoVars == <<coreVars, handlerVars, testRunVars, wizardVars,
                  dashboardVars>>

\* all but the wizard
notWizardVars == <<coreVars, handlerVars, testRunVars, mongoVars,
                   dashboardVars>>

\* all but the dashboard
notDashboardVars == <<coreVars, handlerVars, testRunVars, mongoVars,
                      wizardVars>>

vars == <<walkerVars, apiVars, runsVars, extractVars, appVars>>

\* the calls counted over the run
OpNames == {"launch", "newPage", "setUserAgent", "goto", "scrapePage",
            "nextWait", "nextQuery", "click", "waitForNavigation", "close"}

Issue(o, name) == [o EXCEPT ![name] = @ + 1]

Init ==
    /\ config \in ScraperConfig
    /\ pc = "launch"
    /\ browser = FALSE
    /\ thrown = FALSE
    /\ failedStage = "none"
    /\ outcome = "running"
    /\ result = <<>>
    /\ allScrapedData = <<>>
    /\ currentPageNum = 0
    /\ maxDepth = 0
    /\ scrape = ScrapeStart
    /\ fieldIdx = 0
    /\ twin = ScrapeStart
    /\ twinAt = 0
    /\ navState = "none"
    /\ clickState = "none"
    /\ ops = [n \in OpNames |-> 0]
    /\ pageRecs = <<>>
    /\ advanceFailedAt = 0
    /\ advanceFailure = "none"
    /\ failed = {}
    /\ error = NoError
    /\ terminated = FALSE
    /\ fieldWaits = <<>>
    /\ scrapers = <<>>
    /\ request = NoRequest
    /\ response = 0
    /\ engineCalls = <<>>
    /\ itemCount = NoItemCount
    /\ scrapedData = <<>>
    /\ runs = [r \in RunIds |-> RunStart]
    /\ browserVar = [r \in RunIds |-> 0]
    /\ sessions = <<>>
    /\ navSync = FALSE
    /\ extraction = ExtractionStart
    /\ scraperDoc = NoDocument
    /\ runDocs = <<>>
    /\ handlers = [h \in HandlerIds |-> HandlerStart]
    /\ requests = 0
    /\ now = 1
    /\ testRun = TestRunStart
    /\ cachedClient = Undefined
    /\ cachedDb = Undefined
    /\ customGlobal = [mongoClient |-> Undefined, mongoDb |-> Undefined]
    /\ clients = <<>>
    /\ calls = [c \in CallIds |-> CallStart]
    /\ wizard = WizardStart
    /\ dashboard = DashboardStart
    /\ scrapersDocs = <<>>
    /\ activated = <<>>
    /\ posted = <<>>

\* ---------------------------------------------------------------- runScraper
\* variant: the outer catch swallows the error and the run returns
ThrowSwallowed(stage) ==
    /\ thrown' = FALSE
    /\ error' = NoError
    /\ failedStage' = stage
    /\ failed' = failed \cup {stage}
    /\ pc' = "finally"

\* a rejection inside the outer try: catch logs, wraps and rethrows; the
\* finally block runs next
Throw(stage) ==
    /\ thrown' = TRUE
    /\ \E message \in Messages : error' = WrapError(config.url, message)
    /\ failedStage' = stage
    /\ failed' = failed \cup {stage}
    /\ pc' = "finally"

\* the awaited call resolved: on to the next statement
Proceed(next) ==
    /\ pc' = next
    /\ UNCHANGED <<thrown, failedStage, failed, error>>

\* variant: the loop stops one page early
LoopConditionStrict(pageNum, depth) == pageNum < depth

\* while (currentPageNum <= maxDepth)
LoopCondition(pageNum, depth) == pageNum <= depth

\* variant: the finally block never closes
ShouldCloseNever(b) == FALSE

\* if (browser) in the finally block
ShouldClose(b) == b

\* variant: the inner catch rethrows instead of breaking
AdvanceFailRethrow(why) ==
    /\ advanceFailedAt' = currentPageNum
    /\ advanceFailure' = why
    /\ failed' = failed \cup {why}
    /\ thrown' = TRUE
    /\ failedStage' = why
    /\ pc' = "finally"
    /\ UNCHANGED currentPageNum

\* variant: the inner catch waits for the next-page selector again
AdvanceFailRetry(why) ==
    /\ advanceFailedAt' = currentPageNum
    /\ advanceFailure' = why
    /\ failed' = failed \cup {why}
    /\ pc' = "nextWait"
    /\ UNCHANGED <<thrown, failedStage, currentPageNum>>

\* variant: the inner catch goes on to the next page instead of breaking
AdvanceFailContinue(why) ==
    /\ advanceFailedAt' = currentPageNum
    /\ advanceFailure' = why
    /\ failed' = failed \cup {why}
    /\ currentPageNum' = currentPageNum + 1
    /\ pc' = "loop"
    /\ UNCHANGED <<thrown, failedStage>>

\* a rejection inside the inner try, or a null element handle: log and break
AdvanceFail(why) ==
    /\ advanceFailedAt' = currentPageNum
    /\ advanceFailure' = why
    /\ failed' = failed \cup {why}
    /\ pc' = "return"
    /\ UNCHANGED <<thrown, failedStage, currentPageNum>>

\* the awaited call of the advance resolved
AdvanceProceed(next) ==
    /\ pc' = next
    /\ UNCHANGED <<thrown, failedStage, currentPageNum, advanceFailedAt,
                   advanceFailure, failed>>

\* whether an awaited session call resolves: every call on a killed browser
\* rejects
Answers == IF terminated THEN {FALSE} ELSE BOOLEAN

\* browser = await puppeteer.launch(...)
Launch ==
    /\ pc = "launch"
    /\ ops' = Issue(ops, "launch")
    /\ \E ok \in BOOLEAN :
        IF ok
        THEN /\ browser' = TRUE
             /\ Proceed("newPage")
        ELSE /\ Throw("launch")
             /\ UNCHANGED browser
    /\ UNCHANGED <<navSync, apiVars, runsVars, extractVars, appVars, fieldWaits, terminated, config, outcome, result, allScrapedData, currentPageNum,
                   maxDepth, scrape, fieldIdx, twin, twinAt, navState, clickState,
                   pageRecs, advanceFailedAt, advanceFailure>>

\* const page = await browser.newPage()
NewPage ==
    /\ pc = "newPage"
    /\ ops' = Issue(ops, "newPage")
    /\ \E ok \in BOOLEAN : IF ok THEN Proceed("setUserAgent") ELSE Throw("newPage")
    /\ UNCHANGED <<navSync, apiVars, runsVars, extractVars, appVars, fieldWaits, terminated, config, browser, outcome, result, allScrapedData,
                   currentPageNum, maxDepth, scrape, fieldIdx, twin, twinAt, navState,
                   clickState, pageRecs, advanceFailedAt, advanceFailure>>

\* await page.setUserAgent(...); the two default timeouts are plain setters
SetUserAgent ==
    /\ pc = "setUserAgent"
    /\ ops' = Issue(ops, "setUserAgent")
    /\ \E ok \in BOOLEAN : IF ok THEN Proceed("goto") ELSE Throw("setUserAgent")
    /\ UNCHANGED <<navSync, apiVars, runsVars, extractVars, appVars, fieldWaits, terminated, config, browser, outcome, result, allScrapedData,
                   currentPageNum, maxDepth, scrape, fieldIdx, twin, twinAt, navState,
                   clickState, pageRecs, advanceFailedAt, advanceFailure>>

\* await page.goto(url, networkidle2), then the three loop variables
Goto ==
    /\ pc = "goto"
    /\ ops' = Issue(ops, "goto")
    /\ \E ok \in BOOLEAN :
        IF ok
        THEN /\ allScrapedData' = <<>>
             /\ currentPageNum' = 1
             /\ maxDepth' = EffectiveMaxDepth(config)
             /\ Proceed("loop")
        ELSE /\ Throw("goto")
             /\ UNCHANGED <<allScrapedData, currentPageNum, maxDepth>>
    /\ UNCHANGED <<navSync, apiVars, runsVars, extractVars, appVars, fieldWaits, terminated, config, browser, outcome, result, scrape, fieldIdx, twin, twinAt,
                   navState, clickState, pageRecs, advanceFailedAt,
                   advanceFailure>>

\* the loop test, and on entry the call of scrapePage
LoopTest ==
    /\ pc = "loop"
    /\ navSync' = FALSE
    /\ IF LoopCondition(currentPageNum, maxDepth)
       THEN /\ pc' = "scrapePage"
            /\ ops' = Issue(ops, "scrapePage")
            /\ scrape' = ScrapeStart
            /\ fieldIdx' = 1
            /\ twin' = ScrapeStart
            /\ twinAt' = 0
            /\ fieldWaits' = [i \in 1 .. Len(config.selectors) |-> 0]
       ELSE /\ pc' = "return"
            /\ UNCHANGED <<ops, scrape, fieldIdx, twin, twinAt, fieldWaits>>
    /\ UNCHANGED <<apiVars, runsVars, extractVars, appVars, terminated, error, config, browser, thrown, failedStage, outcome, result,
                   allScrapedData, currentPageNum, maxDepth, navState,
                   clickState, pageRecs, advanceFailedAt, advanceFailure, failed>>

Skipped == [kind |-> "skipped", text |-> Null]

\* the outcomes the page can give for a selector: nothing is asked of the
\* page when the selector is blank
OutcomesFor(sel) ==
    IF EmptySelector(sel) THEN {Skipped}
    ELSE IF terminated THEN {out \in FieldOutcomes : out.kind # "text"}
    ELSE FieldOutcomes

\* the call of one field that rejected, if any
FieldFailures(out) ==
    IF out.kind = "timeout" THEN {"fieldWait"}
    ELSE IF out.kind = "evalFail" THEN {"fieldEval"}
    ELSE {}

\* one iteration of the for loop of scrapePage
ScrapeFieldStep ==
    /\ pc = "scrapePage"
    /\ fieldIdx <= Len(config.selectors)
    /\ \E out \in OutcomesFor(config.selectors[fieldIdx]) :
        /\ scrape' = ScrapeField(scrape, config.selectors[fieldIdx], out)
        /\ failed' = failed \cup FieldFailures(out)
        /\ \E alt \in IF twinAt = 0 THEN OutcomesFor(config.selectors[fieldIdx])
                      ELSE {out} :
            /\ twin' = ScrapeField(twin, config.selectors[fieldIdx], alt)
            /\ twinAt' = IF alt = out THEN twinAt ELSE fieldIdx
    /\ fieldWaits' = [fieldWaits EXCEPT ![fieldIdx] =
                        IF EmptySelector(config.selectors[fieldIdx])
                        THEN @ ELSE @ + 1]
    /\ fieldIdx' = fieldIdx + 1
    /\ UNCHANGED <<navSync, apiVars, runsVars, extractVars, appVars, terminated, error, config, pc, browser, thrown, failedStage, outcome, result,
                   allScrapedData, currentPageNum, maxDepth, navState,
                   clickState, ops, pageRecs, advanceFailedAt, advanceFailure>>

\* variant: the records of a page go in front of the earlier ones
PushAllFront(list, pageData) == pageData \o list

\* allScrapedData.push(...pageData)
PushAll(list, pageData) == list \o pageData

\* scrapePage returns; runScraper pushes what it returned
ScrapeReturn ==
    /\ pc = "scrapePage"
    /\ fieldIdx > Len(config.selectors)
    /\ allScrapedData' = PushAll(allScrapedData, PageData(scrape))
    /\ pageRecs' = Append(pageRecs, PageData(scrape))
    /\ twin' = ScrapeStart
    /\ twinAt' = 0
    /\ pc' = "advance"
    /\ UNCHANGED <<navSync, apiVars, runsVars, extractVars, appVars, fieldWaits, terminated, error, config, browser, thrown, failedStage, outcome, result,
                   currentPageNum, maxDepth, scrape, fieldIdx, navState,
                   clickState, ops, advanceFailedAt, advanceFailure, failed>>

\* if (paginationEnabled && paginationNextSelector && currentPageNum < maxDepth)
\* ... else break
AdvanceDecision ==
    /\ pc = "advance"
    /\ pc' = IF ShouldAdvance(config, currentPageNum, maxDepth)
             THEN "nextWait" ELSE "return"
    /\ UNCHANGED <<navSync, apiVars, runsVars, extractVars, appVars, fieldWaits, terminated, error, config, browser, thrown, failedStage, outcome, result,
                   allScrapedData, currentPageNum, maxDepth, scrape, fieldIdx,
                   twin, twinAt, navState, clickState, ops, pageRecs, advanceFailedAt,
                   advanceFailure, failed>>

\* await page.waitForSelector(paginationNextSelector, 10s)
NextWait ==
    /\ pc = "nextWait"
    /\ ops' = Issue(ops, "nextWait")
    /\ \E ok \in Answers :
        IF ok THEN AdvanceProceed("nextQuery") ELSE AdvanceFail("nextWait")
    /\ UNCHANGED <<navSync, apiVars, runsVars, extractVars, appVars, fieldWaits, terminated, error, config, browser, outcome, result, allScrapedData, maxDepth,
                   scrape, fieldIdx, twin, twinAt, navState, clickState, pageRecs>>

\* const nextPageButton = await page.$(selector): a handle, null, or a rejection
NextQuery ==
    /\ pc = "nextQuery"
    /\ ops' = Issue(ops, "nextQuery")
    /\ \E r \in IF terminated THEN {"reject"} ELSE {"handle", "null", "reject"} :
        IF r = "handle"
        THEN AdvanceProceed("clickNav")
        ELSE AdvanceFail(IF r = "null" THEN "notLocated" ELSE "nextQuery")
    /\ UNCHANGED <<navSync, apiVars, runsVars, extractVars, appVars, fieldWaits, terminated, error, config, browser, outcome, result, allScrapedData, maxDepth,
                   scrape, fieldIdx, twin, twinAt, navState, clickState, pageRecs>>

\* variant: the click is made first and the navigation is waited for after it
PairOrderClickFirst == <<"click", "waitForNavigation">>

\* the order in which the array literal handed to Promise.all makes the calls
PairOrder == <<"waitForNavigation", "click">>

\* the navigation wait when the page navigates in step with the click: it
\* resolves if it was registered by then; otherwise the event is gone and the
\* wait can only time out
NavAfterSyncEvent(order) ==
    IF order[1] = "waitForNavigation" THEN "ok" ELSE "fail"

\* Promise.all([page.waitForNavigation(...), page.click(...)]): both calls
\* are made before the first await; the page may navigate at once
ClickNav ==
    /\ pc = "clickNav"
    /\ ops' = Issue(Issue(ops, PairOrder[1]), PairOrder[2])
    /\ \E sync \in Answers :
        /\ navSync' = sync
        /\ navState' = IF sync THEN NavAfterSyncEvent(PairOrder) ELSE "pending"
        /\ failed' = IF sync /\ NavAfterSyncEvent(PairOrder) = "fail"
                     THEN failed \cup {"waitForNavigation"} ELSE failed
    /\ clickState' = "pending"
    /\ pc' = "join"
    /\ UNCHANGED <<apiVars, runsVars, extractVars, appVars, fieldWaits, terminated, error, config, browser, thrown, failedStage, outcome, result,
                   allScrapedData, currentPageNum, maxDepth, scrape, fieldIdx,
                   twin, twinAt, pageRecs, advanceFailedAt, advanceFailure>>

\* a pending promise settles; it cannot resolve once the browser is closed
\* or killed
Settled(ok) == IF ok /\ ops["close"] = 0 /\ ~terminated THEN "ok" ELSE "fail"

\* the navigation promise settles
SettleNav ==
    /\ navState = "pending"
    /\ \E ok \in BOOLEAN :
        /\ navState' = Settled(ok)
        /\ failed' = IF Settled(ok) = "fail"
                     THEN failed \cup {"waitForNavigation"} ELSE failed
    /\ UNCHANGED <<navSync, apiVars, runsVars, extractVars, appVars, fieldWaits, terminated, error, config, pc, browser, thrown, failedStage, outcome, result,
                   allScrapedData, currentPageNum, maxDepth, scrape, fieldIdx,
                   twin, twinAt, clickState, ops, pageRecs, advanceFailedAt,
                   advanceFailure>>

\* the click promise settles
SettleClick ==
    /\ clickState = "pending"
    /\ \E ok \in BOOLEAN :
        /\ clickState' = Settled(ok)
        /\ failed' = IF Settled(ok) = "fail"
                     THEN failed \cup {"click"} ELSE failed
    /\ UNCHANGED <<navSync, apiVars, runsVars, extractVars, appVars, fieldWaits, terminated, error, config, pc, browser, thrown, failedStage, outcome, result,
                   allScrapedData, currentPageNum, maxDepth, scrape, fieldIdx,
                   twin, twinAt, navState, ops, pageRecs, advanceFailedAt,
                   advanceFailure>>

\* Promise.all resolved: currentPageNum++
JoinResolve ==
    /\ pc = "join"
    /\ navState = "ok" /\ clickState = "ok"
    /\ currentPageNum' = currentPageNum + 1
    /\ navState' = "none"
    /\ clickState' = "none"
    /\ pc' = "loop"
    /\ UNCHANGED <<navSync, apiVars, runsVars, extractVars, appVars, fieldWaits, terminated, error, config, browser, thrown, failedStage, outcome, result,
                   allScrapedData, maxDepth, scrape, fieldIdx, twin, twinAt, ops,
                   pageRecs, advanceFailedAt, advanceFailure, failed>>

\* Promise.all rejected as soon as one of the two did: catch, warn, break
JoinReject ==
    /\ pc = "join"
    /\ navState = "fail" \/ clickState = "fail"
    /\ AdvanceFail(IF clickState = "fail" THEN "click" ELSE "waitForNavigation")
    /\ UNCHANGED <<navSync, apiVars, runsVars, extractVars, appVars, fieldWaits, terminated, error, config, browser, outcome, result, allScrapedData, maxDepth,
                   scrape, fieldIdx, twin, twinAt, navState, clickState, ops, pageRecs>>

\* return allScrapedData
Return ==
    /\ pc = "return"
    /\ pc' = "finally"
    /\ UNCHANGED <<navSync, apiVars, runsVars, extractVars, appVars, fieldWaits, terminated, error, config, browser, thrown, failedStage, outcome, result,
                   allScrapedData, currentPageNum, maxDepth, scrape, fieldIdx,
                   twin, twinAt, navState, clickState, ops, pageRecs, advanceFailedAt,
                   advanceFailure, failed>>

\* finally { if (browser) await browser.close() }, then the caller gets the
\* array or the error
Finally ==
    /\ pc = "finally"
    /\ IF ShouldClose(browser)
       THEN ops' = Issue(ops, "close")
       ELSE UNCHANGED ops
    /\ outcome' = IF thrown THEN "error" ELSE "returned"
    /\ result' = IF thrown THEN <<>> ELSE allScrapedData
    /\ pc' = "done"
    /\ UNCHANGED <<navSync, apiVars, runsVars, extractVars, appVars, fieldWaits, terminated, error, config, browser, thrown, failedStage, allScrapedData,
                   currentPageNum, maxDepth, scrape, fieldIdx, twin, twinAt, navState,
                   clickState, pageRecs, advanceFailedAt, advanceFailure,
                   failed>>

Next ==
    \/ Launch \/ NewPage \/ SetUserAgent \/ Goto
    \/ LoopTest \/ ScrapeFieldStep \/ ScrapeReturn \/ AdvanceDecision
    \/ NextWait \/ NextQuery \/ ClickNav \/ SettleNav \/ SettleClick
    \/ JoinResolve \/ JoinReject \/ Return \/ Finally

Spec == Init /\ [][Next]_vars

\* the caller kills the browser while the run is past page.goto and has not
\* reached its finally block
Terminate ==
    /\ ~terminated
    /\ pc \in {"loop", "scrapePage", "advance", "nextWait", "nextQuery",
               "clickNav", "join", "return"}
    /\ terminated' = TRUE
    /\ UNCHANGED <<navSync, apiVars, runsVars, extractVars, appVars, config, pc, browser, thrown, failedStage, outcome, result,
                   allScrapedData, currentPageNum, maxDepth, scrape, fieldIdx,
                   twin, twinAt, navState, clickState, ops, pageRecs,
                   advanceFailedAt, advanceFailure, failed, error,
                   fieldWaits>>

NextAbort == Next \/ Terminate

\* runs whose caller may kill the browser
SpecAbort == Init /\ [][NextAbort]_vars

\* the awaited calls of a run all settle in the end and the event loop runs
\* every continuation that is ready
SpecFair == Init /\ [][Next]_vars /\ WF_vars(Next)

\* ---------------------------------------------------------------- routes
MaxStored == 1          \* most documents the scrapers collection holds
MaxRuns == 1            \* most documents the scrapedData collection holds
MaxItems == 2           \* most records a run of the engine returns

\* JSON bodies sent to POST /api/scrapers and to the test-run route: the
\* members the pagination rules read may be missing; selectors may be empty
BodySelectors == {<<>>, <<[fieldName |-> "a", cssSelector |-> <<Letter>>]>>}

\* maxDepth of a body: negative, zero or positive
BodyDepths == {d \in Depths : d <= 1}

Bodies ==
    {b \in [url : Urls, paginationEnabled : {"absent", "true", "false"},
            hasMaxDepth : BOOLEAN, maxDepth : BodyDepths,
            hasNextSelector : BOOLEAN, paginationNextSelector : NextSelectors,
            selectors : BodySelectors] :
        /\ (~b.hasMaxDepth => b.maxDepth = 0)
        /\ (~b.hasNextSelector => b.paginationNextSelector = <<>>)}

\* what safeParse hands back for a body it accepts: paginationEnabled and
\* status get their defaults
ParseBody(b) ==
    [url |-> b.url,
     paginationEnabled |-> (b.paginationEnabled = "true"),
     hasMaxDepth |-> b.hasMaxDepth, maxDepth |-> b.maxDepth,
     hasNextSelector |-> b.hasNextSelector,
     paginationNextSelector |-> b.paginationNextSelector,
     selectors |-> b.selectors,
     status |-> "active"]

\* ScraperConfigSchema / TestRunClientPayloadSchema: at least one selector,
\* no empty field name or selector, maxDepth a positive integer if given
BaseSchemaAccepts(x) ==
    /\ Len(x.selectors) >= 1
    /\ \A i \in 1 .. Len(x.selectors) :
         x.selectors[i].fieldName # "" /\ Len(x.selectors[i].cssSelector) >= 1
    /\ (x.hasMaxDepth => x.maxDepth > 0)

\* the two .refine checks: with pagination enabled the next selector must be
\* truthy and maxDepth must not be undefined
RefinementsAccept(c) ==
    /\ ~(c.paginationEnabled /\ ~TruthyNextSelector(c))
    /\ ~(c.paginationEnabled /\ ~c.hasMaxDepth)

\* variant: the create route validates with the base schema only
CreateScraperSchemaBase(b) == BaseSchemaAccepts(b)

\* CreateScraperSchema.safeParse(body).success
CreateScraperSchemaAccepts(b) ==
    BaseSchemaAccepts(b) /\ RefinementsAccept(ParseBody(b))

\* RefinedTestRunClientPayloadSchema.safeParse(body).success
TestRunPayloadAccepts(b) ==
    BaseSchemaAccepts(b) /\ RefinementsAccept(ParseBody(b))

\* a document of the scrapers collection as POST /api/scrapers inserts it
NewDocument(c) ==
    [config |-> c, lastRunStatus |-> "none", lastRunItemCount |-> 0,
     lastRunId |-> 0, lastRunErrorMessage |-> "unset"]

\* what runScraper does for a route: it throws, or returns so many records
Throws == 0 - 1
EngineOutcomes == {Throws} \cup (0 .. MaxItems)

\* POST /api/scrapers
CreateScraper ==
    /\ response = 0
    /\ Len(scrapers) < MaxStored
    /\ \E body \in Bodies, db \in {"down", "insertFails", "ok"} :
        /\ request' = [endpoint |-> "create", body |-> body, id |-> 0]
        /\ IF db = "down" THEN /\ response' = 500
                               /\ UNCHANGED scrapers
           ELSE IF ~CreateScraperSchemaAccepts(body)
           THEN /\ response' = 400
                /\ UNCHANGED scrapers
           ELSE IF db = "insertFails"
           THEN /\ response' = 500
                /\ UNCHANGED scrapers
           ELSE /\ response' = 201
                /\ scrapers' = Append(scrapers, NewDocument(ParseBody(body)))
    /\ engineCalls' = <<>>
    /\ UNCHANGED <<itemCount, scrapedData, walkerVars, runsVars, extractVars, appVars>>

\* POST of the test-run route
TestRun ==
    /\ response = 0
    /\ \E body \in Bodies, run \in EngineOutcomes :
        /\ request' = [endpoint |-> "testRun", body |-> body, id |-> 0]
        /\ IF ~TestRunPayloadAccepts(body)
           THEN /\ response' = 400
                /\ engineCalls' = <<>>
           ELSE IF ~BaseSchemaAccepts(ParseBody(body))
           THEN /\ response' = 500
                /\ engineCalls' = <<>>
           ELSE /\ engineCalls' = <<ParseBody(body)>>
                /\ response' = IF run = Throws THEN 500 ELSE 200
    /\ UNCHANGED <<itemCount, scrapers, scrapedData, walkerVars, runsVars,
                   extractVars, appVars>>

\* variant: a run without items counts as failed
RunStatusErrorWhenEmpty(count) == IF count > 0 THEN "success" ELSE "error"

\* const runStatus = itemCount > 0 ? 'success' : 'empty'
RunStatus(count) == IF count > 0 THEN "success" ELSE "empty"

\* status: scraperConfigForEngine.status === 'error' ? 'error' : 'active'
StatusAfterRun(status) == IF status = "error" THEN "error" ELSE "active"

\* the $set of the catch block
RunFailed(doc) ==
    [doc EXCEPT !.lastRunStatus = "error",
                !.lastRunErrorMessage = "error.message"]

\* the $set after a run that returned
RunRecorded(doc, count, runId) ==
    [doc EXCEPT !.lastRunStatus = RunStatus(count),
                !.lastRunItemCount = count,
                !.lastRunId = runId,
                !.config.status = StatusAfterRun(doc.config.status),
                !.lastRunErrorMessage = "null"]

\* variant: the rejection is noted as a failed run only, status is left alone
ConfigRejectedKeepsStatus(doc) ==
    [doc EXCEPT !.lastRunStatus = "error",
                !.lastRunErrorMessage = "Invalid configuration in database"]

\* the $set when the stored configuration fails the schema
ConfigRejected(doc) ==
    [doc EXCEPT !.config.status = "error",
                !.lastRunStatus = "error",
                !.lastRunErrorMessage = "Invalid configuration in database"]

\* POST /api/scrapers/[id]/run; id 0 stands for a string that is no ObjectId
RunById ==
    /\ response = 0
    /\ Len(scrapedData) < MaxRuns
    /\ \E id \in 0 .. MaxStored, db \in {"down", "insertFails", "ok"},
          run \in EngineOutcomes :
        /\ request' = [endpoint |-> "run", body |-> NoBody, id |-> id]
        /\ IF id = 0
           THEN /\ response' = 400
                /\ engineCalls' = <<>>
                /\ itemCount' = NoItemCount
                /\ UNCHANGED <<scrapers, scrapedData>>
           ELSE IF db = "down"
           THEN /\ response' = 500
                /\ engineCalls' = <<>>
                /\ itemCount' = NoItemCount
                /\ UNCHANGED <<scrapers, scrapedData>>
           ELSE IF id > Len(scrapers)
           THEN /\ response' = 404
                /\ engineCalls' = <<>>
                /\ itemCount' = NoItemCount
                /\ UNCHANGED <<scrapers, scrapedData>>
           ELSE IF ~BaseSchemaAccepts(scrapers[id].config)
           THEN /\ response' = 500
                /\ engineCalls' = <<>>
                /\ itemCount' = NoItemCount
                /\ scrapers' = [scrapers EXCEPT ![id] = ConfigRejected(@)]
                /\ UNCHANGED scrapedData
           ELSE /\ engineCalls' = <<scrapers[id].config>>
                /\ itemCount' = IF run = Throws THEN NoItemCount ELSE run
                /\ IF run = Throws \/ db = "insertFails"
                   THEN /\ response' = 500
                        /\ scrapers' = [scrapers EXCEPT ![id] = RunFailed(@)]
                        /\ UNCHANGED scrapedData
                   ELSE /\ response' = 200
                        /\ scrapedData' =
                             Append(scrapedData,
                                    [scraperConfigId |-> id,
                                     status |-> RunStatus(run),
                                     itemCount |-> run])
                        /\ scrapers' =
                             [scrapers EXCEPT ![id] =
                                 RunRecorded(@, run, Len(scrapedData) + 1)]
    /\ UNCHANGED <<walkerVars, runsVars, extractVars, appVars>>

\* the response has gone out; the routes wait for the next request
ResponseSent ==
    /\ response # 0
    /\ request' = NoRequest
    /\ response' = 0
    /\ engineCalls' = <<>>
    /\ itemCount' = NoItemCount
    /\ UNCHANGED <<scrapers, scrapedData, walkerVars, runsVars, extractVars, appVars>>

NextApi == CreateScraper \/ TestRun \/ RunById \/ ResponseSent

\* the job of the engine while only the routes are looked at
IdleJob ==
    [url |-> "https://a.example/list", paginationEnabled |-> FALSE,
     hasMaxDepth |-> FALSE, maxDepth |-> 0,
     hasNextSelector |-> FALSE, paginationNextSelector |-> <<>>,
     selectors |-> <<[fieldName |-> "a", cssSelector |-> <<Letter>>]>>]

\* the routes and the invocations below start with the engine of Spec at rest
InitIdle == Init /\ config = IdleJob

SpecApi == InitIdle /\ [][NextApi]_vars

\* ---------------------------------------------------------------- stored documents
\* values of the status enum a stored document may carry
StoredStatuses == {"active", "error", "paused"}

\* configurations findOne may hand to the run route: ones the schema accepts,
\* and ones it rejects for an empty selector list or a maxDepth of 0
StoredConfigs ==
    {[ParseBody(b) EXCEPT !.status = st] :
        b \in {x \in Bodies : /\ x.paginationEnabled = "absent"
                              /\ ~x.hasNextSelector
                              /\ x.maxDepth >= 0},
        st \in StoredStatuses}

\* a document is in the scrapers collection when the run route looks for it,
\* whoever wrote it
DocumentStored ==
    /\ response = 0
    /\ Len(scrapers) < MaxStored
    /\ \E c \in StoredConfigs : scrapers' = Append(scrapers, NewDocument(c))
    /\ UNCHANGED <<request, response, engineCalls, itemCount, scrapedData,
                   walkerVars, runsVars, extractVars, appVars>>

NextStored == DocumentStored \/ RunById \/ ResponseSent

\* the run route on whatever the collection holds
SpecStored == InitIdle /\ [][NextStored]_vars

\* ---------------------------------------------------------------- runs side by side
RunPages == 2           \* pages each of the two invocations walks at most

\* variant: browser is one variable shared by all invocations
BrowserSlotShared(r) == 1

\* let browser: declared inside runScraper, one variable per invocation
BrowserSlot(r) == r

\* the browser a resolved puppeteer.launch hands back: a new one every time
NewSession(r) ==
    [launchedBy |-> r, open |-> TRUE, callers |-> {}, closers |-> {},
     gave |-> <<>>]

\* invocation r makes a call on browser s
Called(s, r) == [sessions EXCEPT ![s].callers = @ \cup {r}]

\* a call on a closed browser rejects
SessionAnswers(s) == IF sessions[s].open THEN BOOLEAN ELSE {FALSE}

\* the invocation leaves the try block through the outer catch
RunThrows(r) == [runs EXCEPT ![r].pc = "finally", ![r].thrown = TRUE]

\* browser = await puppeteer.launch(...)
RunLaunch(r) ==
    /\ runs[r].pc = "launch"
    /\ \E ok \in BOOLEAN :
        IF ok
        THEN /\ sessions' = Append(sessions, NewSession(r))
             /\ browserVar' = [browserVar EXCEPT
                                  ![BrowserSlot(r)] = Len(sessions) + 1]
             /\ runs' = [runs EXCEPT ![r].pc = "newPage"]
        ELSE /\ runs' = RunThrows(r)
             /\ UNCHANGED <<sessions, browserVar>>
    /\ UNCHANGED <<walkerVars, apiVars, extractVars, appVars>>

\* const page = await browser.newPage()
RunNewPage(r) ==
    /\ runs[r].pc = "newPage"
    /\ LET s == browserVar[BrowserSlot(r)]
       IN  /\ sessions' = Called(s, r)
           /\ \E ok \in SessionAnswers(s) :
                runs' = IF ok
                        THEN [runs EXCEPT ![r].pc = "goto", ![r].page = s]
                        ELSE RunThrows(r)
    /\ UNCHANGED <<browserVar, walkerVars, apiVars, extractVars, appVars>>

\* await page.setUserAgent(...); await page.goto(...); currentPageNum = 1
RunGoto(r) ==
    /\ runs[r].pc = "goto"
    /\ sessions' = Called(runs[r].page, r)
    /\ \E ok \in SessionAnswers(runs[r].page) :
         runs' = IF ok
                 THEN [runs EXCEPT ![r].pc = "scrape", ![r].pageNum = 1]
                 ELSE RunThrows(r)
    /\ UNCHANGED <<browserVar, walkerVars, apiVars, extractVars, appVars>>

\* pageData = await scrapePage(page, selectors), pushed if not empty; what
\* a page gives is marked with the browser and the page number it came from
RunScrape(r) ==
    /\ runs[r].pc = "scrape"
    /\ LET s == runs[r].page
           item == [session |-> s, page |-> runs[r].pageNum]
       IN  \E gives \in SessionAnswers(s) :
             /\ sessions' = [Called(s, r) EXCEPT
                                ![s].gave = IF gives THEN Append(@, item) ELSE @]
             /\ runs' = [runs EXCEPT
                            ![r].pc = "advance",
                            ![r].data = IF gives THEN Append(@, item) ELSE @]
    /\ UNCHANGED <<browserVar, walkerVars, apiVars, extractVars, appVars>>

\* the advance to the next page: the wait, the lookup, the click and the
\* navigation on the page of the invocation, or the break
RunAdvance(r) ==
    /\ runs[r].pc = "advance"
    /\ IF runs[r].pageNum < RunPages
       THEN /\ sessions' = Called(runs[r].page, r)
            /\ \E ok \in SessionAnswers(runs[r].page) :
                 runs' = IF ok
                         THEN [runs EXCEPT ![r].pc = "scrape",
                                           ![r].pageNum = @ + 1]
                         ELSE [runs EXCEPT ![r].pc = "finally"]
       ELSE /\ runs' = [runs EXCEPT ![r].pc = "finally"]
            /\ UNCHANGED sessions
    /\ UNCHANGED <<browserVar, walkerVars, apiVars, extractVars, appVars>>

\* finally { if (browser) await browser.close() }
RunFinally(r) ==
    /\ runs[r].pc = "finally"
    /\ LET s == browserVar[BrowserSlot(r)]
       IN  IF s # 0
           THEN sessions' = [sessions EXCEPT ![s].open = FALSE,
                                             ![s].closers = @ \cup {r}]
           ELSE UNCHANGED sessions
    /\ runs' = [runs EXCEPT ![r].pc = "done"]
    /\ UNCHANGED <<browserVar, walkerVars, apiVars, extractVars, appVars>>

NextRuns ==
    \E r \in RunIds :
        \/ RunLaunch(r) \/ RunNewPage(r) \/ RunGoto(r)
        \/ RunScrape(r) \/ RunAdvance(r) \/ RunFinally(r)

\* two invocations of runScraper interleaved at their awaits
SpecRuns == InitIdle /\ [][NextRuns]_vars

\* ---------------------------------------------------------------- scrapePage alone
\* variant: the element is clicked before its text is read
FieldCallsClicking(sel, out) ==
    IF EmptySelector(sel) THEN <<>>
    ELSE IF out.kind = "timeout" THEN <<"waitForSelector">>
    ELSE <<"waitForSelector", "click", "$eval">>

\* the calls one iteration makes on the page: none for an empty selector,
\* page.waitForSelector, and page.$eval once the wait resolved
FieldCalls(sel, out) ==
    IF EmptySelector(sel) THEN <<>>
    ELSE IF out.kind = "timeout" THEN <<"waitForSelector">>
    ELSE <<"waitForSelector", "$eval">>

\* one iteration of the for loop of scrapePage, the answer of the page and
\* the calls made on it kept
ExtractField ==
    /\ ~extraction.done
    /\ extraction.at <= Len(config.selectors)
    /\ \E out \in OutcomesFor(config.selectors[extraction.at]) :
         extraction' =
            [extraction EXCEPT
                !.st = ScrapeField(@, config.selectors[extraction.at], out),
                !.answers = Append(@, out),
                !.calls = @ \o FieldCalls(config.selectors[extraction.at], out),
                !.at = @ + 1]
    /\ UNCHANGED <<walkerVars, apiVars, runsVars, appVars>>

\* return hasData ? [scrapedData] : []
ExtractReturn ==
    /\ ~extraction.done
    /\ extraction.at > Len(config.selectors)
    /\ extraction' = [extraction EXCEPT !.returned = PageData(extraction.st),
                                        !.done = TRUE]
    /\ UNCHANGED <<walkerVars, apiVars, runsVars, appVars>>

NextExtract == ExtractField \/ ExtractReturn

\* the selector lists scrapePage is called with; the rest of the job is not
\* read by it
InitExtract ==
    /\ Init
    /\ ~config.paginationEnabled
    /\ ~config.hasMaxDepth
    /\ ~config.hasNextSelector

\* scrapePage on every selector list and every answer of the page
SpecExtract == InitExtract /\ [][NextExtract]_vars

\* ---------------------------------------------------------------- run requests side by side
MaxRequests == 2        \* most run requests the two handlers serve in all

\* what the stored document may hold: a configuration the schema rejects, and
\* one it accepts under the status 'active' or 'error'
HandlerConfigs ==
    {c \in StoredConfigs :
        /\ ~c.hasMaxDepth
        /\ c.status # "paused"
        /\ (c.status = "error" => BaseSchemaAccepts(c))}

\* the document as findOne hands it over, lastRunAt included
StoredDocument(c) == NewDocument(c) @@ [lastRunAt |-> NoDate]

\* error.message of a rejected database call; nothing keeps it from being ''
DbMessages == {"", "connection closed"}

\* error.message of what runScraper throws: `Scraping failed for ...`
EngineMessage == "Scraping failed for url: message"

\* what runScraper gives a handler: it throws, or returns so many records
HandlerOutcomes == {Throws, 0, 1}

\* variant: the message is stored as it comes
MessageAsIs(message) == message

\* error.message || 'Unknown error during run'
MessageOrDefault(message) ==
    IF message = "" THEN "Unknown error during run" ELSE message

\* new Date(): the clock does not go back, and no two reads of the handlers
\* fall into the same millisecond
Dates == {now + 1}

\* the handler enters the catch block: const runAt = new Date()
Caught(h, message, t) ==
    [handlers EXCEPT ![h].pc = "catch", ![h].message = message, ![h].runAt = t]

\* the handler has answered: its locals are gone, what it did is kept
Answered(h, status, what) ==
    [handlers EXCEPT ![h] = [HandlerStart EXCEPT !.pc = "done",
                                                 !.answered = status,
                                                 !.wrote = what,
                                                 !.engine = handlers[h].engine,
                                                 !.overlap = handlers[h].overlap,
                                                 !.runId = handlers[h].runId]]

\* a document is in the scrapers collection under the id the requests name
ScraperStored ==
    /\ scraperDoc = NoDocument
    /\ \E c \in HandlerConfigs : scraperDoc' = StoredDocument(c)
    /\ UNCHANGED <<runDocs, handlers, requests, now, notHandlerVars>>

\* one of the handlers in H is serving a request
Busy(H) == \E g \in H : handlers[g].pc \notin {"idle", "done"}

\* a request arrives and goes to the first free handler; an id that is no
\* ObjectId answers 400
RunRequested(h) ==
    /\ handlers[h].pc \in {"idle", "done"}
    /\ \A g \in HandlerIds : g < h => Busy({g})
    /\ requests < MaxRequests
    /\ requests' = requests + 1
    /\ \E valid \in BOOLEAN :
         handlers' =
            IF valid
            THEN [g \in HandlerIds |->
                    IF g = h
                    THEN [HandlerStart EXCEPT !.pc = "connect",
                                              !.overlap = Busy(HandlerIds \ {h})]
                    ELSE [handlers[g] EXCEPT
                             !.overlap = @ \/ Busy({g})]]
            ELSE [handlers EXCEPT ![h] = [HandlerStart EXCEPT
                                             !.pc = "done", !.answered = 400]]
    /\ UNCHANGED <<scraperDoc, runDocs, now, notHandlerVars>>

\* mongo = await connectToDatabase(); when it rejects mongo stays undefined
\* and the catch block writes nothing
Connected(h) ==
    /\ handlers[h].pc = "connect"
    /\ \E ok \in BOOLEAN :
         handlers' = IF ok THEN [handlers EXCEPT ![h].pc = "findOne"]
                     ELSE Answered(h, 500, "none")
    /\ UNCHANGED <<scraperDoc, runDocs, requests, now, notHandlerVars>>

\* findOne and ScraperConfigSchema.safeParse on what it found
FoundOne(h) ==
    /\ handlers[h].pc = "findOne"
    /\ \/ \E m \in DbMessages, t \in Dates :
            /\ handlers' = Caught(h, m, t)
            /\ now' = t
       \/ /\ scraperDoc = NoDocument
          /\ handlers' = Answered(h, 404, "none")
          /\ UNCHANGED now
       \/ /\ scraperDoc # NoDocument
          /\ ~BaseSchemaAccepts(scraperDoc.config)
          /\ \E t \in Dates :
               /\ handlers' = [handlers EXCEPT ![h].pc = "rejected",
                                               ![h].runAt = t]
               /\ now' = t
       \/ /\ scraperDoc # NoDocument
          /\ BaseSchemaAccepts(scraperDoc.config)
          /\ handlers' = [handlers EXCEPT
                             ![h].pc = "runScraper",
                             ![h].status = scraperDoc.config.status]
          /\ UNCHANGED now
    /\ UNCHANGED <<scraperDoc, runDocs, requests, notHandlerVars>>

\* the updateOne of a configuration the schema rejects, then 500
RejectedUpdated(h) ==
    /\ handlers[h].pc = "rejected"
    /\ \/ /\ scraperDoc' = [ConfigRejected(scraperDoc) EXCEPT
                               !.lastRunAt = handlers[h].runAt]
          /\ handlers' = Answered(h, 500, "rejected")
          /\ UNCHANGED now
       \/ \E m \in DbMessages, t \in Dates :
            /\ handlers' = Caught(h, m, t)
            /\ now' = t
            /\ UNCHANGED scraperDoc
    /\ UNCHANGED <<runDocs, requests, notHandlerVars>>

\* await runScraper(...); itemCount and runAt taken when it returns
RanScraper(h) ==
    /\ handlers[h].pc = "runScraper"
    /\ \E run \in HandlerOutcomes, t \in Dates :
         /\ handlers' =
              IF run = Throws
              THEN [Caught(h, EngineMessage, t) EXCEPT ![h].engine = "threw"]
              ELSE [handlers EXCEPT ![h].pc = "insertOne",
                                    ![h].engine = "returned",
                                    ![h].count = run, ![h].runAt = t]
         /\ now' = t
    /\ UNCHANGED <<scraperDoc, runDocs, requests, notHandlerVars>>

\* scrapedDataCollection.insertOne(...); runId = result.insertedId
InsertedOne(h) ==
    /\ handlers[h].pc = "insertOne"
    /\ \/ /\ runDocs' = Append(runDocs,
                               [runAt |-> handlers[h].runAt,
                                status |-> RunStatus(handlers[h].count),
                                itemCount |-> handlers[h].count])
          /\ handlers' = [handlers EXCEPT ![h].pc = "updateOne",
                                          ![h].runId = Len(runDocs) + 1]
          /\ UNCHANGED now
       \/ \E m \in DbMessages, t \in Dates :
            /\ handlers' = Caught(h, m, t)
            /\ now' = t
            /\ UNCHANGED runDocs
    /\ UNCHANGED <<scraperDoc, requests, notHandlerVars>>

\* the updateOne after the insert, then 200; status is computed from the
\* configuration as findOne gave it
UpdatedOne(h) ==
    /\ handlers[h].pc = "updateOne"
    /\ \/ /\ scraperDoc' =
               [RunRecorded(scraperDoc, handlers[h].count, handlers[h].runId)
                   EXCEPT !.lastRunAt = handlers[h].runAt,
                          !.config.status = StatusAfterRun(handlers[h].status)]
          /\ handlers' = Answered(h, 200, "recorded")
          /\ UNCHANGED now
       \/ \E m \in DbMessages, t \in Dates :
            /\ handlers' = Caught(h, m, t)
            /\ now' = t
            /\ UNCHANGED scraperDoc
    /\ UNCHANGED <<runDocs, requests, notHandlerVars>>

\* the catch block: its updateOne, whose own failure is only logged, then 500
CatchUpdated(h) ==
    /\ handlers[h].pc = "catch"
    /\ \/ /\ scraperDoc # NoDocument
          /\ scraperDoc' =
               [RunFailed(scraperDoc) EXCEPT
                   !.lastRunAt = handlers[h].runAt,
                   !.lastRunErrorMessage =
                       MessageOrDefault(handlers[h].message)]
          /\ handlers' = Answered(h, 500, "failed")
       \/ /\ handlers' = Answered(h, 500, "none")
          /\ UNCHANGED scraperDoc
    /\ UNCHANGED <<runDocs, requests, now, notHandlerVars>>

NextHandlers ==
    \/ ScraperStored
    \/ \E h \in HandlerIds :
         \/ RunRequested(h) \/ Connected(h) \/ FoundOne(h)
         \/ RejectedUpdated(h) \/ RanScraper(h) \/ InsertedOne(h)
         \/ UpdatedOne(h) \/ CatchUpdated(h)

\* run requests for one scraper served by two handlers, interleaved at their
\* awaits
SpecHandlers == InitIdle /\ [][NextHandlers]_vars

\* ---------------------------------------------------------------- test-run route
MaxRecords == 6         \* most records runScraper returns to a test run

MAX_SAMPLE_SIZE == 5

\* the records runScraper returns, told apart by what they hold
Records == {"r1", "r2"}

\* scrapedDataItems: what runScraper resolves with
RunResults == SeqsUpTo(Records, MaxRecords)

\* what request.json() gives: a body, or a SyntaxError for what is no JSON
TestRunBodies == Bodies \cup {NoBody}

\* variant: the sample is taken from the end of the array
SliceFromEnd(xs, n) ==
    IF Len(xs) <= n THEN xs ELSE SubSeq(xs, Len(xs) - n + 1, Len(xs))

\* xs.slice(0, n)
Slice(xs, n) == IF Len(xs) <= n THEN xs ELSE SubSeq(xs, 1, n)

\* the route answers
TestRunAnswers(status) == [testRun EXCEPT !.pc = "done", !.answered = status]

\* POST of the test-run route up to await runScraper(configToRun)
TestRunRequested ==
    /\ testRun.pc = "idle"
    /\ \E body \in TestRunBodies :
         testRun' =
            IF body = NoBody
            THEN [TestRunAnswers(500) EXCEPT !.body = body]
            ELSE IF ~TestRunPayloadAccepts(body)
            THEN [TestRunAnswers(400) EXCEPT !.body = body]
            ELSE IF ~BaseSchemaAccepts(ParseBody(body))
            THEN [TestRunAnswers(500) EXCEPT !.body = body]
            ELSE [testRun EXCEPT !.pc = "runScraper", !.body = body,
                                 !.engineCalls = 1]
    /\ UNCHANGED notTestRunVars

\* runScraper settles: itemCount, sampledData and the 200, or the catch block
TestRunSettled ==
    /\ testRun.pc = "runScraper"
    /\ \/ testRun' = TestRunAnswers(500)
       \/ \E items \in RunResults :
            testRun' = [TestRunAnswers(200) EXCEPT
                           !.items = items,
                           !.itemCount = Len(items),
                           !.data = Slice(items, MAX_SAMPLE_SIZE)]
    /\ UNCHANGED notTestRunVars

\* the response has gone out; the route waits for the next request
TestRunSent ==
    /\ testRun.pc = "done"
    /\ testRun' = TestRunStart
    /\ UNCHANGED notTestRunVars

NextTestRun == TestRunRequested \/ TestRunSettled \/ TestRunSent

\* the test-run route over every body and every result of the engine
SpecTestRun == InitIdle /\ [][NextTestRun]_vars

\* ---------------------------------------------------------------- connectToDatabase
MaxClients == 3         \* no call starts once so many MongoClients exist

\* the client behind a cached database handle: client.db(DATABASE_NAME) of
\* client k is written k
DbOf(k) == k

\* variant: a client whose connect failed is left as it is
LeftOpen(k) == clients

\* await client.close() of the catch block
CloseClient(k) == [clients EXCEPT ![k].state = "closed"]

\* const client = new MongoClient(MONGODB_URI); client.connect() is issued
NewClient(c) ==
    /\ clients' = Append(clients, [state |-> "new", failed |-> FALSE])
    /\ calls' = [calls EXCEPT ![c] = [CallStart EXCEPT
                                         !.pc = "connect",
                                         !.client = Len(clients) + 1]]

\* connectToDatabase() is called: with a cached client and database the ping
\* is issued, without them a new client is created
Enter(c) ==
    /\ calls[c].pc \in {"idle", "done"}
    /\ Len(clients) < MaxClients
    /\ IF cachedClient # Undefined /\ cachedDb # Undefined
       THEN /\ calls' = [calls EXCEPT ![c] = [CallStart EXCEPT !.pc = "ping"]]
            /\ UNCHANGED clients
       ELSE NewClient(c)
    /\ UNCHANGED <<cachedClient, cachedDb, customGlobal, notMongoVars>>

\* the ping resolved: return { client: cachedClient, db: cachedDb }, both
\* read now
PingResolved(c) ==
    /\ calls[c].pc = "ping"
    /\ calls' = [calls EXCEPT ![c].pc = "done",
                              ![c].returned = [client |-> cachedClient,
                                               db |-> cachedDb]]
    /\ UNCHANGED <<cachedClient, cachedDb, customGlobal, clients,
                   notMongoVars>>

\* the ping rejected: the cache is cleared and a new client is created
PingRejected(c) ==
    /\ calls[c].pc = "ping"
    /\ cachedClient' = Undefined
    /\ cachedDb' = Undefined
    /\ NewClient(c)
    /\ UNCHANGED <<customGlobal, notMongoVars>>

\* client.connect() resolved: the client and its database are cached on the
\* global object and in the module, and returned
ConnectResolved(c) ==
    /\ calls[c].pc = "connect"
    /\ LET k == calls[c].client
       IN  /\ clients' = [clients EXCEPT ![k].state = "connected"]
           /\ customGlobal' = [mongoClient |-> k, mongoDb |-> DbOf(k)]
           /\ cachedClient' = k
           /\ cachedDb' = DbOf(k)
           /\ calls' = [calls EXCEPT ![c].pc = "done",
                                     ![c].returned = [client |-> k,
                                                      db |-> DbOf(k)]]
    /\ UNCHANGED notMongoVars

\* client.connect() rejected: the catch block issues client.close()
ConnectRejected(c) ==
    /\ calls[c].pc = "connect"
    /\ clients' = [clients EXCEPT ![calls[c].client].failed = TRUE]
    /\ calls' = [calls EXCEPT ![c].pc = "close"]
    /\ UNCHANGED <<cachedClient, cachedDb, customGlobal, notMongoVars>>

\* client.close() resolved: throw error
Rethrown(c) ==
    /\ calls[c].pc = "close"
    /\ clients' = CloseClient(calls[c].client)
    /\ calls' = [calls EXCEPT ![c].pc = "done", ![c].threw = TRUE]
    /\ UNCHANGED <<cachedClient, cachedDb, customGlobal, notMongoVars>>

\* a hot reload evaluates the module again while no call is under way:
\* cachedClient and cachedDb are read from the global object
ModuleEvaluated ==
    /\ \A c \in CallIds : calls[c].pc \in {"idle", "done"}
    /\ cachedClient' = customGlobal.mongoClient
    /\ cachedDb' = customGlobal.mongoDb
    /\ UNCHANGED <<customGlobal, clients, calls, notMongoVars>>

NextMongo ==
    \/ ModuleEvaluated
    \/ \E c \in CallIds :
         \/ Enter(c) \/ PingResolved(c) \/ PingRejected(c)
         \/ ConnectResolved(c) \/ ConnectRejected(c) \/ Rethrown(c)

\* calls of connectToDatabase interleaved at their awaits
SpecMongo == InitIdle /\ [][NextMongo]_vars

\* ---------------------------------------------------------------- configuration wizard
MaxRows == 2            \* most selector rows the wizard holds

\* what gets typed into the URL field
UrlTexts ==
    {<<>>,
     <<"a">>,
     <<"h", "t", "t", "p">>,
     <<"f", "t", "p", ":", "/", "/", "a">>,
     <<" ", "h", "t", "t", "p", ":", "/", "/", "a">>,
     <<"h", "t", "t", "p", ":", "/", "/", "a">>,
     <<"h", "t", "t", "p", "s", ":", "/", "/", "a">>}

\* what gets typed into a field name, a CSS selector or the next selector
FieldTexts == SeqsUpTo({Blank, Letter}, 1)

\* what gets typed into the number field of maxDepth
DepthTexts == {"", "abc", "0", "-1", "1", "3"}

\* the texts parseInt reads a number from; for every other it gives NaN
Numerals == {"0", "-1", "1", "3"}

\* parseInt(value, 10) of a numeral
ParseInt(value) ==
    CASE value = "0" -> 0
      [] value = "-1" -> 0 - 1
      [] value = "1" -> 1
      [] value = "3" -> 3

\* parseInt(e.target.value, 10) || 1: NaN and 0 are falsy
MaxDepthTyped(value) ==
    IF value \in Numerals /\ ParseInt(value) # 0 THEN ParseInt(value) ELSE 1

\* s from position i on is the text p followed by anything
MatchesAt(s, i, p) ==
    /\ Len(s) >= i - 1 + Len(p)
    /\ \A j \in 1 .. Len(p) : s[i - 1 + j] = p[j]

\* url.match(/^https?:\/\//): "http", then an "s" or none, then "://"
MatchesHttp(u) ==
    /\ MatchesAt(u, 1, <<"h", "t", "t", "p">>)
    /\ \/ MatchesAt(u, 5, <<":", "/", "/">>)
       \/ MatchesAt(u, 5, <<"s">>) /\ MatchesAt(u, 6, <<":", "/", "/">>)

\* variant: a row counts as filled in as soon as both texts are not empty
RowIncompleteUntrimmed(s) == s.fieldName = <<>> \/ s.cssSelector = <<>>

\* !s.fieldName.trim() || !s.cssSelector.trim()
RowIncomplete(s) == Trim(s.fieldName) = <<>> \/ Trim(s.cssSelector) = <<>>

\* the URL field of step 1 is edited
UrlChanged ==
    /\ wizard.currentStep = 1
    /\ \E u \in UrlTexts : wizard' = [wizard EXCEPT !.url = u]
    /\ UNCHANGED notWizardVars

\* handleSubmitStep1: an alert, or step 2
SubmitStep1 ==
    /\ wizard.currentStep = 1
    /\ wizard' = IF wizard.url = <<>> \/ ~MatchesHttp(wizard.url)
                 THEN wizard
                 ELSE [wizard EXCEPT !.currentStep = 2]
    /\ UNCHANGED notWizardVars

\* handleSubmitStep2: an alert, or step 3
SubmitStep2 ==
    /\ wizard.currentStep = 2
    /\ wizard' = IF wizard.scrapeMode = "simple"
                 THEN [wizard EXCEPT !.currentStep = 3]
                 ELSE wizard
    /\ UNCHANGED notWizardVars

\* the Previous button of steps 2 to 5
Previous ==
    /\ wizard.currentStep \in 2 .. 5
    /\ wizard' = [wizard EXCEPT !.currentStep = @ - 1]
    /\ UNCHANGED notWizardVars

\* handleSelectorChange on one of the two inputs of a row of step 3
SelectorChanged ==
    /\ wizard.currentStep = 3 /\ wizard.scrapeMode = "simple"
    /\ \E index \in 1 .. Len(wizard.selectors),
          name \in {"fieldName", "cssSelector"}, value \in FieldTexts :
         wizard' = [wizard EXCEPT !.selectors[index][name] = value]
    /\ UNCHANGED notWizardVars

\* addSelectorRow
AddSelectorRow ==
    /\ wizard.currentStep = 3 /\ wizard.scrapeMode = "simple"
    /\ Len(wizard.selectors) < MaxRows
    /\ wizard' = [wizard EXCEPT
                     !.selectors = Append(@, [fieldName |-> <<>>,
                                              cssSelector |-> <<>>])]
    /\ UNCHANGED notWizardVars

\* removeSelectorRow: nothing happens to the last row left
RemoveSelectorRow ==
    /\ wizard.currentStep = 3 /\ wizard.scrapeMode = "simple"
    /\ \E index \in 1 .. Len(wizard.selectors) :
         wizard' =
            IF Len(wizard.selectors) <= 1 THEN wizard
            ELSE [wizard EXCEPT
                     !.selectors =
                        SubSeq(@, 1, index - 1) \o SubSeq(@, index + 1, Len(@))]
    /\ UNCHANGED notWizardVars

\* the checkbox of step 3
PaginationToggled ==
    /\ wizard.currentStep = 3 /\ wizard.scrapeMode = "simple"
    /\ wizard' = [wizard EXCEPT !.paginationEnabled = ~@]
    /\ UNCHANGED notWizardVars

\* the two inputs shown while pagination is enabled
PaginationEdited ==
    /\ wizard.currentStep = 3 /\ wizard.scrapeMode = "simple"
    /\ wizard.paginationEnabled
    /\ \/ \E value \in FieldTexts :
            wizard' = [wizard EXCEPT !.paginationNextSelector = value]
       \/ \E value \in DepthTexts :
            wizard' = [wizard EXCEPT !.maxDepth = MaxDepthTyped(value)]
    /\ UNCHANGED notWizardVars

\* handleSubmitStep3: an alert, or step 4
SubmitStep3 ==
    /\ wizard.currentStep = 3 /\ wizard.scrapeMode = "simple"
    /\ wizard' =
         IF \E i \in 1 .. Len(wizard.selectors) :
                RowIncomplete(wizard.selectors[i])
         THEN wizard
         ELSE IF /\ wizard.paginationEnabled
                 /\ \/ Trim(wizard.paginationNextSelector) = <<>>
                    \/ wizard.maxDepth <= 0
         THEN wizard
         ELSE [wizard EXCEPT !.currentStep = 4]
    /\ UNCHANGED notWizardVars

\* handleSubmitStep4
SubmitStep4 ==
    /\ wizard.currentStep = 4
    /\ wizard' = [wizard EXCEPT !.currentStep = 5]
    /\ UNCHANGED notWizardVars

NextWizard ==
    \/ UrlChanged \/ SubmitStep1 \/ SubmitStep2 \/ Previous
    \/ SelectorChanged \/ AddSelectorRow \/ RemoveSelectorRow
    \/ PaginationToggled \/ PaginationEdited \/ SubmitStep3 \/ SubmitStep4

\* every sequence of edits and of Next and Previous in the wizard
SpecWizard == InitIdle /\ [][NextWizard]_vars

\* ---------------------------------------------------------------- dashboard
MaxDocs == 3            \* most documents of the scrapers collection
MaxClicks == 3          \* most activations of a Run Now button

\* obj[key] of a JSON object: undefined for a property it does not have
Get(obj, key) == IF key \in DOMAIN obj THEN obj[key] ELSE Undefined

\* const { _id, ...rest } = doc
Rest(doc) == [k \in DOMAIN doc \ {"_id"} |-> doc[k]]

\* what GET /api/scrapers returns for a document: { ...rest, id: _id.toHexString() }
Returned(doc) == [id |-> doc._id] @@ Rest(doc)

\* a document of the scrapers collection; _id counts from 1
ScraperDocument(n) == [_id |-> n, url |-> "https://a.example/list",
                       status |-> "active"]

\* currentRunState.loading || isLoading of the card of a scraper
RunNowDisabled(scraper) ==
    Get(scraper, "_id") \in dashboard.runStates \/ dashboard.isLoading

\* handleRunScraper up to its first await: nothing for a falsy scraperId,
\* else the run state is set to loading and the POST is issued
HandleRunScraper(scraperId) ==
    IF scraperId = Undefined
    THEN UNCHANGED <<dashboard, posted>>
    ELSE /\ dashboard' = [dashboard EXCEPT
                             !.runStates = @ \cup {scraperId},
                             !.global = FALSE]
         /\ posted' = Append(posted, scraperId)

\* a scraper is created and stored
DocumentCreated ==
    /\ Len(scrapersDocs) < MaxDocs
    /\ scrapersDocs' = Append(scrapersDocs,
                              ScraperDocument(Len(scrapersDocs) + 1))
    /\ UNCHANGED <<dashboard, activated, posted, notDashboardVars>>

\* the page is opened or reloaded: useEffect calls fetchScrapers, which clears
\* the global entry and issues GET /api/scrapers
Mounted ==
    /\ dashboard' = [DashboardStart EXCEPT !.fetching = TRUE]
    /\ UNCHANGED <<scrapersDocs, activated, posted, notDashboardVars>>

\* GET /api/scrapers answered: the list is shown, or the error and no list
FetchSettled ==
    /\ dashboard.fetching
    /\ \E ok \in BOOLEAN :
         dashboard' =
            IF ok
            THEN [dashboard EXCEPT
                     !.scrapers = [i \in 1 .. Len(scrapersDocs) |->
                                      Returned(scrapersDocs[i])],
                     !.isLoading = FALSE, !.fetching = FALSE]
            ELSE [dashboard EXCEPT
                     !.scrapers = <<>>, !.global = TRUE,
                     !.isLoading = FALSE, !.fetching = FALSE]
    /\ UNCHANGED <<scrapersDocs, activated, posted, notDashboardVars>>

\* the Run Now button of a card is activated:
\* onClick={() => handleRunScraper(scraper._id)}
RunNow ==
    /\ Len(activated) < MaxClicks
    /\ \E i \in 1 .. Len(dashboard.scrapers) :
         /\ ~RunNowDisabled(dashboard.scrapers[i])
         /\ activated' = Append(activated, scrapersDocs[i]._id)
         /\ HandleRunScraper(Get(dashboard.scrapers[i], "_id"))
    /\ UNCHANGED <<scrapersDocs, notDashboardVars>>

NextDashboard == DocumentCreated \/ Mounted \/ FetchSettled \/ RunNow

\* the dashboard over what GET /api/scrapers returns
SpecDashboard == InitIdle /\ [][NextDashboard]_vars

\* ---------------------------------------------------------------- vocabulary
\* number of page visits: invocations of scrapePage
Visits == ops["scrapePage"]

\* calls of the pagination attempt that have been issued
AdvanceOps == ops["nextWait"] + ops["nextQuery"] + ops["click"] + ops["waitForNavigation"]

\* puppeteer.launch resolved and page.goto resolved
InitialNavigationOk == browser /\ ops["goto"] = 1 /\ "goto" \notin failed

HasValue(item) == \E n \in DOMAIN item : ~item[n].isNull

RECURSIVE Flatten(_)
Flatten(ss) == IF ss = <<>> THEN <<>> ELSE Head(ss) \o Flatten(Tail(ss))

\* ---------------------------------------------------------------- C1
\* C1: a job with paginationEnabled = false, whatever its maxDepth and next
\* selector, visits exactly one page once launch and the initial navigation
\* succeeded, and never waits for, looks up or clicks a next-page control.
C1_DisabledVisitsOnePage ==
    ~config.paginationEnabled =>
        /\ Visits <= 1
        /\ AdvanceOps = 0
        /\ (pc = "done" /\ InitialNavigationOk => Visits = 1)

C1_Witness ==
    /\ pc = "done"
    /\ ~config.paginationEnabled
    /\ config.hasMaxDepth /\ config.maxDepth = MaxDepthBound
    /\ TruthyNextSelector(config)
    /\ InitialNavigationOk
    /\ Visits = 1

\* ---------------------------------------------------------------- C2
\* C2: with pagination enabled and maxDepth = N (a positive integer), the
\* run never visits more than N pages, and no advance is under way once
\* currentPageNum has reached N, whatever the session answers.
C2_AtMostMaxDepthVisits ==
    (config.paginationEnabled /\ config.hasMaxDepth /\ config.maxDepth >= 1) =>
        /\ Visits <= config.maxDepth
        /\ currentPageNum <= config.maxDepth
        /\ (pc \in {"nextWait", "nextQuery", "clickNav", "join"}
                => currentPageNum < config.maxDepth)

\* the walk stopped on the depth bound right after a successful click
C2_Witness ==
    /\ pc = "done"
    /\ config.paginationEnabled
    /\ config.hasMaxDepth /\ config.maxDepth = 2
    /\ Visits = 2
    /\ ops["click"] = 1
    /\ failed = {}

\* ---------------------------------------------------------------- C3
\* C3 as stated: with pagination enabled and maxDepth = N, fewer than N pages
\* are visited iff the next-page selector was unavailable (its wait timed
\* out or the element was not located) on a page before N.
C3_Original ==
    (/\ pc = "done"
     /\ config.paginationEnabled /\ config.hasMaxDepth
     /\ TruthyNextSelector(config)
     /\ InitialNavigationOk) =>
        (Visits < config.maxDepth
            <=> advanceFailure \in {"nextWait", "notLocated", "nextQuery"})

\* C3 amended: with pagination enabled, a non-empty next selector and
\* maxDepth = N, fewer than N pages are visited iff advancing failed on a
\* page before N: the selector wait timed out, the element was not located,
\* or the click or the awaited navigation failed.
C3_FewerIffAdvanceFailed ==
    (/\ pc = "done"
     /\ config.paginationEnabled /\ config.hasMaxDepth
     /\ TruthyNextSelector(config)
     /\ InitialNavigationOk) =>
        /\ (Visits < config.maxDepth <=> advanceFailedAt # 0)
        /\ (advanceFailedAt # 0 => advanceFailedAt < config.maxDepth)
        /\ (advanceFailedAt # 0 =>
                advanceFailure \in {"nextWait", "notLocated", "nextQuery",
                                    "click", "waitForNavigation"})

C3_Witness ==
    /\ pc = "done"
    /\ config.paginationEnabled
    /\ config.hasMaxDepth /\ config.maxDepth = 3
    /\ Visits = 2
    /\ advanceFailure = "click"

\* ---------------------------------------------------------------- C4
\* C4: pagination never causes zero visits: once launch and the initial
\* navigation succeeded at least one page is visited, and a job whose
\* maxDepth is 0 or negative visits exactly one page and makes no
\* pagination attempt.
C4_NeverZeroVisits ==
    (pc = "done" /\ InitialNavigationOk) =>
        /\ Visits >= 1
        /\ (config.hasMaxDepth /\ config.maxDepth <= 0
                => Visits = 1 /\ AdvanceOps = 0)

\* ---------------------------------------------------------------- C5
\* C5: every record pushed to the result has at least one non-null field,
\* and a page contributes a record iff the item extracted from it has a
\* non-null field, also when a field name occurs twice in the selectors.
C5_RecordsHaveData ==
    /\ \A i \in 1 .. Len(allScrapedData) : HasValue(allScrapedData[i])
    /\ (pc \in {"advance", "nextWait", "nextQuery", "clickNav", "join", "return"}
            /\ Len(pageRecs) >= 1
        => (pageRecs[Len(pageRecs)] # <<>> <=> HasValue(scrape.data)))

\* ---------------------------------------------------------------- C6
FieldNameAt(i) == config.selectors[i].fieldName

\* C6: field extraction is failure-isolated: two extractions on the same
\* page that differ only in what the page answers for the selector of field
\* A (text, timeout, rejection) record the same value for every field B of
\* another name, and every selector of the list is gone through before
\* scrapePage returns.
C6_FailureIsolated ==
    /\ pc = "scrapePage" =>
        /\ DOMAIN twin.data = DOMAIN scrape.data
        /\ DOMAIN scrape.data = {FieldNameAt(j) : j \in 1 .. fieldIdx - 1}
        /\ \A j \in 1 .. fieldIdx - 1 :
             (twinAt = 0 \/ FieldNameAt(j) # FieldNameAt(twinAt)) =>
                twin.data[FieldNameAt(j)] = scrape.data[FieldNameAt(j)]
    /\ pc = "advance" =>
        /\ fieldIdx = Len(config.selectors) + 1
        /\ DOMAIN scrape.data
             = {FieldNameAt(j) : j \in 1 .. Len(config.selectors)}

\* field A timed out on one page and was read on the other; field B, which
\* follows it, has its text on both
C6_Witness ==
    /\ pc = "scrapePage"
    /\ fieldIdx = 3
    /\ twinAt = 1
    /\ FieldNameAt(1) # FieldNameAt(2)
    /\ scrape.data[FieldNameAt(1)].isNull
    /\ "fieldWait" \in failed
    /\ ~twin.data[FieldNameAt(1)].isNull
    /\ ~scrape.data[FieldNameAt(2)].isNull

\* ---------------------------------------------------------------- C7
\* C7: on every exit path on which the browser was launched the browser is
\* closed exactly once, before the run returns or raises, and no session
\* call is issued after the close; when the launch failed close is not
\* called.
C7_ClosedExactlyOnce ==
    /\ [](/\ ops["close"] <= 1
          /\ (outcome # "running" => ops["close"] = IF browser THEN 1 ELSE 0)
          /\ (ops["close"] = 1 => browser /\ pc = "done")
          /\ (~browser => ops["close"] = 0))
    /\ [][ops["close"] = 1 => ops' = ops /\ scrape' = scrape /\ pc' = pc]_vars

\* closed after the initial navigation failed
C7_Witness ==
    /\ pc = "done"
    /\ browser
    /\ "goto" \in failed
    /\ outcome = "error"
    /\ ops["close"] = 1

\* ---------------------------------------------------------------- C8
\* C8 as stated: the run ends in an error iff the launch or the initial
\* navigation failed; no other failing call makes it end in an error.
C8_Original ==
    pc = "done" =>
        (outcome = "error" <=> failed \cap {"launch", "goto"} # {})

\* C8 amended: the run ends in an error iff the launch, the opening of the
\* page, the setting of the user agent or the initial navigation failed; a
\* failing field wait or text read, next-selector wait or lookup, click or
\* awaited navigation does not make it end in an error.
C8_ErrorIffSetupFailed ==
    /\ outcome \in {"running", "returned", "error"}
    /\ pc = "done" =>
        /\ outcome # "running"
        /\ (outcome = "error" <=>
              failed \cap {"launch", "newPage", "setUserAgent", "goto"} # {})

\* a run that returned although a field wait and the click failed
C8_Witness ==
    /\ pc = "done"
    /\ outcome = "returned"
    /\ "fieldWait" \in failed
    /\ "click" \in failed

\* ---------------------------------------------------------------- C9
\* C9: when advancing from page k fails for whatever reason, no later page
\* is visited and the run returns, without error, exactly the records of
\* pages 1..k in order.
C9_AdvanceFailureKeepsRecords ==
    advanceFailedAt # 0 =>
        /\ Visits = advanceFailedAt
        /\ Len(pageRecs) = advanceFailedAt
        /\ allScrapedData = Flatten(pageRecs)
        /\ ~thrown
        /\ (pc = "done" => outcome = "returned" /\ result = Flatten(pageRecs))

\* maxDepth 3, pages 1 and 2 gave a record, the next selector did not show
\* on page 2
C9_Witness ==
    /\ pc = "done"
    /\ config.maxDepth = 3
    /\ advanceFailedAt = 2
    /\ advanceFailure = "nextWait"
    /\ Len(result) = 2
    /\ outcome = "returned"

\* ---------------------------------------------------------------- C10
\* C10: when puppeteer.launch rejects the run ends in an error and hands no
\* array to the caller; no page is opened, navigated, scraped or clicked,
\* and nothing is closed.
C10_LaunchFailureIsFatal ==
    "launch" \in failed =>
        /\ outcome # "returned"
        /\ (pc = "done" => outcome = "error")
        /\ pc \in {"finally", "done"}
        /\ ops = [n \in OpNames |-> IF n = "launch" THEN 1 ELSE 0]
        /\ scrape = ScrapeStart
        /\ allScrapedData = <<>> /\ result = <<>>

C10_Witness ==
    /\ pc = "done"
    /\ "launch" \in failed
    /\ outcome = "error"
    /\ ops["launch"] = 1

\* ---------------------------------------------------------------- C11
SetupCalls == {"launch", "newPage", "setUserAgent", "goto"}

\* C11 as stated: a run ends either with an array and no error or with one
\* error, and the error names the URL and the failing stage: "session-launch"
\* when the launch failed, "initial-navigation" when page.goto failed.
C11_Original ==
    outcome = "error" =>
        /\ \E i \in DOMAIN error : error[i] = config.url
        /\ (failedStage = "launch"
                => \E i \in DOMAIN error : error[i] = "session-launch")
        /\ (failedStage = "goto"
                => \E i \in DOMAIN error : error[i] = "initial-navigation")

\* C11 amended: a run ends either with an array and no error or with exactly
\* one error and no array; the error is "Scraping failed for <url>: <message>"
\* with the URL of the job and the message of the one setup call that
\* rejected, and nothing else.
C11_OneOutcomeErrorNamesUrl ==
    /\ (error # NoError <=> thrown)
    /\ (error # NoError =>
            /\ \E message \in Messages :
                 error = <<"Scraping failed for ", config.url, ": ", message>>
            /\ failed = {failedStage}
            /\ failedStage \in SetupCalls
            /\ allScrapedData = <<>>)
    /\ (pc # "done" => outcome = "running")
    /\ (pc = "done" =>
            \/ outcome = "returned" /\ error = NoError /\ result = allScrapedData
            \/ outcome = "error" /\ error # NoError /\ result = <<>>)

\* the initial navigation timed out
C11_Witness ==
    /\ pc = "done"
    /\ outcome = "error"
    /\ failedStage = "goto"
    /\ error[2] = config.url
    /\ error[4] = "Navigation timeout of 60000 ms exceeded"

\* ---------------------------------------------------------------- C12
\* the values of the item under extraction that differ between two states
ChangedFields(before, after) ==
    {n \in DOMAIN after : n \notin DOMAIN before \/ after[n] # before[n]}

\* C12: once the caller has killed the browser (at any point between a
\* resolved page.goto and the finally block) the run raises no error and
\* returns: no text is read any more, the page number only moves if click and
\* navigation had both resolved before, the array grows by nothing but the
\* record of the page under extraction, and the caller gets that array.
C12_KillStopsGracefully ==
    /\ [](terminated =>
            /\ ~thrown /\ error = NoError
            /\ InitialNavigationOk
            /\ (pc = "done" =>
                    outcome = "returned" /\ result = Flatten(pageRecs)))
    /\ [][terminated =>
            /\ (scrape' # scrape /\ scrape' # ScrapeStart =>
                    /\ scrape'.hasData = scrape.hasData
                    /\ \A n \in ChangedFields(scrape.data, scrape'.data) :
                         scrape'.data[n].isNull)
            /\ (currentPageNum' # currentPageNum =>
                    navState = "ok" /\ clickState = "ok")
            /\ allScrapedData' \in {allScrapedData,
                                    allScrapedData \o PageData(scrape)}
            /\ (pc' = "nextQuery" => pc = "nextQuery")
            /\ (pc' = "clickNav" => pc = "clickNav")]_vars

\* killed on page 2 of 3: the lookup of the next-page control rejected and
\* the two records came back
C12_Witness ==
    /\ terminated
    /\ pc = "done"
    /\ outcome = "returned"
    /\ config.maxDepth = 3
    /\ Visits = 2
    /\ failed = {"nextQuery"}
    /\ Len(result) = 2

\* ---------------------------------------------------------------- C13
\* C13: nothing is retried: launch, newPage, setUserAgent and goto are each
\* issued at most once in a run; on a visited page waitForSelector is issued
\* once for each non-blank field selector extraction has reached and never
\* twice, and the wait for the next-page selector is issued at most once per
\* page, the run leaving the page for good when it fails.
C13_NoRetry ==
    /\ \A c \in SetupCalls : ops[c] <= 1
    /\ \A c \in SetupCalls : c \in failed => pc \in {"finally", "done"}
    /\ \A i \in DOMAIN fieldWaits :
         /\ fieldWaits[i] <= 1
         /\ (pc = "scrapePage" /\ i >= fieldIdx => fieldWaits[i] = 0)
    /\ (Visits >= 1 => ops["nextWait"] \in {Visits - 1, Visits})
    /\ (pc \in {"scrapePage", "advance", "nextWait"}
            => ops["nextWait"] = Visits - 1)
    /\ ops["nextQuery"] <= ops["nextWait"]
    /\ ops["click"] <= ops["nextQuery"]
    /\ ops["waitForNavigation"] = ops["click"]
    /\ (advanceFailedAt # 0 => pc \in {"return", "finally", "done"})

\* three pages: a field wait timed out, the wait for the next-page selector
\* was issued on pages 1 and 2 and failed on page 2
C13_Witness ==
    /\ pc = "done"
    /\ Visits = 2
    /\ ops["nextWait"] = 2
    /\ failed = {"fieldWait", "nextWait"}
    /\ \A i \in DOMAIN fieldWaits : fieldWaits[i] = 1

\* ---------------------------------------------------------------- C15
\* C15: the array is in page-visit order with at most one record per visited
\* page: it is the concatenation, in visit order, of what the pages
\* contributed, each page contributing nothing or one record; it changes
\* only by one record being appended at its end; it is never longer than the
\* number of pages visited; and it is the array the caller gets.
C15_VisitOrderAppendOnly ==
    /\ [](/\ Len(pageRecs) <= Visits
          /\ \A i \in 1 .. Len(pageRecs) : Len(pageRecs[i]) <= 1
          /\ allScrapedData = Flatten(pageRecs)
          /\ Len(allScrapedData) <= Visits
          /\ (outcome = "returned" => result = allScrapedData))
    /\ [][\/ allScrapedData' = allScrapedData
          \/ /\ pc = "scrapePage" /\ scrape.hasData
             /\ allScrapedData' = Append(allScrapedData, scrape.data)]_vars

\* three pages visited, the second gave no record, the first and the third
\* gave different ones
C15_Witness ==
    /\ pc = "done"
    /\ Visits = 3
    /\ Len(pageRecs) = 3
    /\ pageRecs[2] = <<>>
    /\ Len(result) = 2
    /\ result[1] # result[2]
    /\ result[1] = pageRecs[1][1]
    /\ result[2] = pageRecs[3][1]

\* ---------------------------------------------------------------- C17
\* pagination switched on without a next selector or without maxDepth
LacksPaginationMember(c) ==
    c.paginationEnabled /\ (~c.hasNextSelector \/ ~c.hasMaxDepth)

C18_AdvanceIffAllThree ==
    /\ [](/\ (pc \in {"nextWait", "nextQuery", "clickNav", "join"} =>
                /\ config.paginationEnabled
                /\ config.hasNextSelector /\ config.paginationNextSelector # <<>>
                /\ currentPageNum < maxDepth)
          /\ (pc = "done" /\ advanceFailedAt = 0 /\ Visits >= 1 =>
                /\ outcome = "returned"
                /\ result = allScrapedData
                /\ ops["nextWait"] = Visits - 1
                /\ ops["click"] = Visits - 1))
    /\ [][pc = "advance" =>
            /\ (pc' = "nextWait" <=>
                    /\ config.paginationEnabled
                    /\ config.hasNextSelector
                    /\ config.paginationNextSelector # <<>>
                    /\ currentPageNum < maxDepth)
            /\ (pc' # "nextWait" => pc' = "return" /\ ~thrown')
            /\ ops' = ops
            /\ allScrapedData' = allScrapedData]_vars

\* pagination is on and maxDepth is 3, but the next selector is the empty
\* string: one page, no wait, the record returned
C18_Witness ==
    /\ pc = "done"
    /\ config.paginationEnabled
    /\ config.hasMaxDepth /\ config.maxDepth = MaxDepthBound
    /\ config.hasNextSelector /\ config.paginationNextSelector = <<>>
    /\ Visits = 1
    /\ AdvanceOps = 0
    /\ outcome = "returned"
    /\ Len(result) = 1

\* ---------------------------------------------------------------- C19
\* C19: waitForNavigation and click are issued in one step, the wait first;
\* a navigation that completes in step with the click is caught by the wait,
\* never lost, and when the click resolves too the run moves to the next page
\* number and calls scrapePage on it.
C19_SyncNavigationNotMissed ==
    /\ [](/\ ops["waitForNavigation"] = ops["click"]
          /\ (navSync => navState \in {"ok", "none"}
                         /\ "waitForNavigation" \notin failed)
          /\ (navSync /\ pc = "loop" => LoopCondition(currentPageNum, maxDepth)))
    /\ [][/\ (ops'["click"] # ops["click"] =>
                /\ pc = "clickNav"
                /\ ops'["waitForNavigation"] = ops["waitForNavigation"] + 1)
          /\ (navSync /\ pc = "join" /\ clickState = "ok" =>
                /\ pc' = "loop"
                /\ currentPageNum' = currentPageNum + 1)
          /\ (navSync /\ pc = "loop" =>
                /\ pc' = "scrapePage"
                /\ ops'["scrapePage"] = ops["scrapePage"] + 1)]_vars

\* the page navigated in step with the click on page 1; the run is about to
\* extract page 2
C19_Witness ==
    /\ navSync
    /\ pc = "loop"
    /\ currentPageNum = 2
    /\ Visits = 1
    /\ failed = {}

\* ---------------------------------------------------------------- C20
\* one of the two promises of Promise.all has not settled
PairPending == navState = "pending" \/ clickState = "pending"

\* C20: no session call is issued while the click or the navigation wait of
\* the run is still pending: scrapePage, the wait for the next selector and
\* its lookup are not under way, and the browser has not been closed, also
\* after one of the two has failed.
C20_NothingOverlapsThePair ==
    PairPending =>
        /\ pc \notin {"scrapePage", "nextWait", "nextQuery", "clickNav"}
        /\ ops["close"] = 0

\* ---------------------------------------------------------------- C16
\* the browsers invocation r launched
LaunchedBy(r) == {s \in DOMAIN sessions : sessions[s].launchedBy = r}

\* C16: two invocations of runScraper interleaved at their awaits never
\* touch each other's browser: each launches at most one browser of its own,
\* the page of an invocation belongs to the browser it launched, every call
\* on a browser and its close come from the invocation that launched it, and
\* the array an invocation holds is what the pages of its own browser gave,
\* in order, whatever the other invocation does meanwhile.
C16_RunsKeepToTheirOwnBrowser ==
    /\ \A r \in RunIds :
         /\ Cardinality(LaunchedBy(r)) <= 1
         /\ (runs[r].page # 0 =>
                /\ runs[r].page \in LaunchedBy(r)
                /\ runs[r].data = sessions[runs[r].page].gave)
         /\ (runs[r].page = 0 => runs[r].data = <<>>)
         /\ (runs[r].pc = "done" =>
                \A s \in LaunchedBy(r) : sessions[s].closers = {r})
    /\ \A s \in DOMAIN sessions :
         /\ sessions[s].callers \subseteq {sessions[s].launchedBy}
         /\ sessions[s].closers \subseteq {sessions[s].launchedBy}
         /\ (sessions[s].open <=> sessions[s].closers = {})

\* invocation 2 launched first; invocation 1 has returned two records and
\* closed its browser while invocation 2 is between its pages, its browser
\* still open
C16_Witness ==
    /\ Len(sessions) = 2
    /\ sessions[1].launchedBy = 2
    /\ runs[1].pc = "done" /\ ~runs[1].thrown
    /\ Len(runs[1].data) = 2
    /\ ~sessions[2].open
    /\ runs[2].pc = "advance" /\ runs[2].pageNum = 1
    /\ Len(runs[2].data) = 1
    /\ sessions[1].open

\* ---------------------------------------------------------------- C21
\* the control state of the walker at a position of runScraper: INIT up to
\* the end of page.goto, LOADED at the loop test, EXTRACTED from the call of
\* scrapePage to the advance decision, ADVANCED inside the inner try, DONE
\* from the statement after the loop on
Control(at) ==
    IF at \in {"launch", "newPage", "setUserAgent", "goto"} THEN "INIT"
    ELSE IF at = "loop" THEN "LOADED"
    ELSE IF at \in {"scrapePage", "advance"} THEN "EXTRACTED"
    ELSE IF at \in {"nextWait", "nextQuery", "clickNav", "join"} THEN "ADVANCED"
    ELSE "DONE"

\* INIT -> LOADED -> EXTRACTED -> (ADVANCED -> LOADED | DONE), with the two
\* exits to DONE that go with it: the fatal setup failure out of INIT and the
\* graceful stop out of ADVANCED
ControlEdges ==
    {<<"INIT", "LOADED">>, <<"LOADED", "EXTRACTED">>,
     <<"EXTRACTED", "ADVANCED">>, <<"EXTRACTED", "DONE">>,
     <<"ADVANCED", "LOADED">>, <<"ADVANCED", "DONE">>, <<"INIT", "DONE">>}

\* every run reaches the end of runScraper
Terminates == <>(pc = "done")

\* C21: every run terminates, its awaited calls settling one way or the
\* other, and its control state moves only along
\* INIT -> LOADED -> EXTRACTED -> (ADVANCED -> LOADED | DONE), leaving INIT
\* for DONE only with an error and ADVANCED for DONE only after a failed
\* advance, and never leaves DONE.
C21_TerminatesAlongStateMachine ==
    /\ Terminates
    /\ [][Control(pc') # Control(pc) =>
            /\ <<Control(pc), Control(pc')>> \in ControlEdges
            /\ (Control(pc) = "INIT" /\ Control(pc') = "DONE" => thrown')
            /\ (Control(pc) = "ADVANCED" /\ Control(pc') = "DONE"
                    => advanceFailedAt' = currentPageNum)]_vars

\* ---------------------------------------------------------------- C22
\* page.goto has resolved and the three loop variables are set
PastInitialNavigation == InitialNavigationOk /\ pc # "goto"

\* C22: from the initial navigation on, 1 <= currentPageNum <= maxDepth;
\* currentPageNum is the number of pages scrapePage has been called on (one
\* more at the loop test, where the call for the page just loaded is about
\* to be made); and it only moves by one, after the click and the awaited
\* navigation have both resolved, never on a failed advance.
C22_PageNumCountsVisits ==
    /\ [](PastInitialNavigation =>
            /\ 1 <= currentPageNum /\ currentPageNum <= maxDepth
            /\ currentPageNum = IF pc = "loop" THEN Visits + 1 ELSE Visits)
    /\ [][PastInitialNavigation /\ currentPageNum' # currentPageNum =>
            /\ currentPageNum' = currentPageNum + 1
            /\ pc = "join" /\ navState = "ok" /\ clickState = "ok"
            /\ advanceFailedAt' = 0]_vars

\* ---------------------------------------------------------------- C23
\* C23: a job with paginationEnabled = true and no maxDepth is walked with
\* maxDepth 1: scrapePage is called on exactly one page once the initial
\* navigation succeeded, and the next-page control is never waited for,
\* looked up or clicked, whatever paginationNextSelector is.
C23_AbsentDepthIsOnePage ==
    (config.paginationEnabled /\ ~config.hasMaxDepth) =>
        /\ (PastInitialNavigation => maxDepth = 1)
        /\ Visits <= 1
        /\ AdvanceOps = 0
        /\ pc \notin {"nextWait", "nextQuery", "clickNav", "join"}
        /\ (pc = "done" /\ InitialNavigationOk =>
                Visits = 1 /\ outcome = "returned")

\* pagination on, a next selector given, no maxDepth: one page, one record
C23_Witness ==
    /\ pc = "done"
    /\ config.paginationEnabled
    /\ ~config.hasMaxDepth
    /\ TruthyNextSelector(config)
    /\ Visits = 1
    /\ AdvanceOps = 0
    /\ Len(result) = 1

\* ---------------------------------------------------------------- C24
\* the selector scrapePage is at is empty or made of blanks only
AtBlankSelector ==
    /\ pc = "scrapePage"
    /\ fieldIdx <= Len(config.selectors)
    /\ Trim(config.selectors[fieldIdx].cssSelector) = <<>>

\* C24: for a field whose cssSelector is empty or blank scrapePage sets the
\* field to null and moves on to the next selector without asking the page
\* anything: no waitForSelector is issued for it, no call fails, and the
\* values under the other names and hasData are what they were, so that the
\* fields that follow start from what they would start from without it.
C24_BlankSelectorSkipped ==
    /\ [](pc \in {"scrapePage", "advance"} =>
            \A i \in 1 .. Len(config.selectors) :
                Trim(config.selectors[i].cssSelector) = <<>>
                    => fieldWaits[i] = 0)
    /\ [][AtBlankSelector =>
            /\ pc' = "scrapePage"
            /\ fieldIdx' = fieldIdx + 1
            /\ scrape'.data[FieldNameAt(fieldIdx)] = Null
            /\ \A n \in DOMAIN scrape.data \ {FieldNameAt(fieldIdx)} :
                 scrape'.data[n] = scrape.data[n]
            /\ DOMAIN scrape'.data = DOMAIN scrape.data \cup {FieldNameAt(fieldIdx)}
            /\ scrape'.hasData = scrape.hasData
            /\ fieldWaits' = fieldWaits
            /\ failed' = failed
            /\ ops' = ops]_vars

\* field a has a blank selector and is null; field b after it was waited
\* for and read, and the page gave a record
C24_Witness ==
    /\ pc = "advance"
    /\ Len(config.selectors) = 2
    /\ Trim(config.selectors[1].cssSelector) = <<>>
    /\ FieldNameAt(1) # FieldNameAt(2)
    /\ scrape.data[FieldNameAt(1)] = Null
    /\ ~scrape.data[FieldNameAt(2)].isNull
    /\ fieldWaits = <<0, 1>>
    /\ failed = {}
    /\ Len(allScrapedData) = 1

\* ---------------------------------------------------------------- C25
\* the page answered selector i with an element and readable text
GaveText(i) ==
    /\ extraction.answers[i].kind = "text"
    /\ ~extraction.answers[i].text.isNull
    /\ Trim(extraction.answers[i].text.text) # <<>>

\* the page answered selector i with an element without text, or with text
\* that is empty once trimmed
GaveEmptyText(i) ==
    /\ extraction.answers[i].kind = "text"
    /\ ~GaveText(i)

\* the selectors gone through so far that carry the same name as selector i
LaterSameName(i) ==
    {j \in (i + 1) .. Len(extraction.answers) : FieldNameAt(j) = FieldNameAt(i)}

\* C25: a field whose element has no text, or text that is empty after
\* trimming, is recorded as null and not as the empty string, and leaves
\* hasData as it was: hasData is set only by a field that gave text, so the
\* page returns a record iff some field did; no value of the item or of the
\* returned record is the empty string or has blanks around it.
C25_EmptyTextIsNull ==
    /\ \A i \in 1 .. Len(extraction.answers) :
         (GaveEmptyText(i) /\ LaterSameName(i) = {})
            => extraction.st.data[FieldNameAt(i)] = Null
    /\ extraction.st.hasData <=> \E i \in 1 .. Len(extraction.answers) : GaveText(i)
    /\ \A n \in DOMAIN extraction.st.data :
         LET v == extraction.st.data[n]
         IN  v.isNull \/ (v.text # <<>> /\ Trim(v.text) = v.text)
    /\ (extraction.done =>
            /\ Len(extraction.returned) = IF extraction.st.hasData THEN 1 ELSE 0
            /\ \A k \in 1 .. Len(extraction.returned) :
                 \A n \in DOMAIN extraction.returned[k] :
                    extraction.returned[k][n] # Str(<<>>))

\* field a read a blank text and field b an empty one: both null, nothing
\* returned
C25_Witness ==
    /\ extraction.done
    /\ Len(extraction.answers) = 2
    /\ FieldNameAt(1) # FieldNameAt(2)
    /\ extraction.answers[1] = [kind |-> "text", text |-> Str(<<Blank>>)]
    /\ extraction.answers[2] = [kind |-> "text", text |-> Str(<<>>)]
    /\ extraction.st.data[FieldNameAt(1)] = Null
    /\ extraction.st.data[FieldNameAt(2)] = Null
    /\ extraction.returned = <<>>

\* ---------------------------------------------------------------- C26
\* the selectors gone through so far that carry name n
Occurrences(n) ==
    {j \in 1 .. Len(extraction.answers) : FieldNameAt(j) = n}

\* the last of them in list order
LastOccurrence(n) ==
    CHOOSE j \in Occurrences(n) : \A k \in Occurrences(n) : k <= j

\* what selector i gave on its own: the trimmed text, or null for a blank
\* selector, a timeout, a rejected read and an empty text
OutcomeOf(i) ==
    IF GaveText(i) THEN Str(Trim(extraction.answers[i].text.text)) ELSE Null

\* C26: when a field name occurs more than once in the selector list the
\* item holds, under that name, what the last occurrence in list order gave
\* (its text, or null), whatever the earlier occurrences gave; and the item
\* has exactly the names of the selectors gone through.
C26_LastOccurrenceWins ==
    /\ DOMAIN extraction.st.data
         = {FieldNameAt(j) : j \in 1 .. Len(extraction.answers)}
    /\ \A n \in DOMAIN extraction.st.data :
         extraction.st.data[n] = OutcomeOf(LastOccurrence(n))
    /\ (extraction.done /\ extraction.returned # <<>> =>
            extraction.returned[1] = extraction.st.data)

\* the name occurs twice: the first occurrence gave text, the second timed
\* out, and the item holds null under the name
C26_Witness ==
    /\ extraction.done
    /\ Len(extraction.answers) = 2
    /\ FieldNameAt(1) = FieldNameAt(2)
    /\ GaveText(1)
    /\ extraction.answers[2].kind = "timeout"
    /\ extraction.st.data[FieldNameAt(1)] = Null

\* ---------------------------------------------------------------- C27
\* the calls of the page that only read it
ReadOnlyCalls == {"waitForSelector", "$eval"}

\* the calls of the session that move it to another page or end it
PageChangingCalls ==
    {"goto", "click", "waitForNavigation", "newPage", "close"}

\* C27: scrapePage only reads the page: every call it makes is
\* page.waitForSelector or page.$eval, one wait per non-blank selector and
\* one read per wait that resolved, and it never navigates, clicks or
\* closes, whether its fields are read, time out or fail to be read; the
\* session is on the same page when it returns as when it was called.
C27_ExtractionOnlyReads ==
    /\ \A k \in 1 .. Len(extraction.calls) :
         /\ extraction.calls[k] \in ReadOnlyCalls
         /\ extraction.calls[k] \notin PageChangingCalls
    /\ Len(extraction.calls)
         = Cardinality({i \in 1 .. Len(extraction.answers) :
                            ~EmptySelector(config.selectors[i])})
           + Cardinality({i \in 1 .. Len(extraction.answers) :
                            extraction.answers[i].kind \in {"text", "evalFail"}})

\* one field was read and the read of the other was rejected: two waits and
\* two reads, nothing else
C27_Witness ==
    /\ extraction.done
    /\ Len(extraction.answers) = 2
    /\ extraction.answers[1].kind = "text"
    /\ extraction.answers[2].kind = "evalFail"
    /\ extraction.calls = <<"waitForSelector", "$eval", "waitForSelector", "$eval">>
    /\ Len(extraction.returned) = 1

\* ---------------------------------------------------------------- C28
\* this step is the run route answering 200 for its scraper
RunCompletes ==
    /\ response = 0
    /\ request'.endpoint = "run"
    /\ response' = 200

\* C28: when the run route completes a run without error, a scraper whose
\* status was 'error' before the run has status 'active' after it.
C28_ErrorStatusReset ==
    [][RunCompletes /\ scrapers[request'.id].config.status = "error"
            => scrapers'[request'.id].config.status = "active"]_vars

\* ---------------------------------------------------------------- C29
\* the run route is answering a request for a stored scraper
RunAnswered == request.endpoint = "run" /\ response # 0

\* runScraper returned to the run route, which counted the items
EngineReturned == itemCount # NoItemCount

RunServes(id) ==
    /\ response = 0
    /\ request'.endpoint = "run"
    /\ request'.id = id
    /\ id \in DOMAIN scrapers

HasErrorMessage(doc) == doc.lastRunErrorMessage \notin {"unset", "null", ""}

\* lastRunStatus is 'error' exactly when lastRunErrorMessage holds a message
ErrorIffMessage ==
    scraperDoc # NoDocument =>
        (scraperDoc.lastRunStatus = "error" <=> HasErrorMessage(scraperDoc))

\* handler h answers the request in which runScraper threw
AnswersFatalRun(h) ==
    /\ handlers[h].pc = "catch"
    /\ handlers[h].engine = "threw"
    /\ handlers'[h].pc = "done"

\* C31 as stated: whenever runScraper throws in a run of a stored scraper,
\* the request inserts no run document, answers 500 and leaves the scraper
\* with lastRunStatus 'error' and a non-empty lastRunErrorMessage; and at all
\* times lastRunStatus is 'error' iff lastRunErrorMessage is non-empty.
C31_Original ==
    /\ []ErrorIffMessage
    /\ [][\A h \in HandlerIds :
            AnswersFatalRun(h) =>
                /\ handlers'[h].answered = 500
                /\ handlers'[h].runId = 0
                /\ runDocs' = runDocs
                /\ scraperDoc'.lastRunStatus = "error"
                /\ HasErrorMessage(scraperDoc')]_vars

\* C31: whenever runScraper throws in a run of a stored scraper, the request
\* inserts no run document and answers 500; the updateOne of the catch block
\* sets lastRunStatus 'error' and a non-empty lastRunErrorMessage, and when
\* that updateOne fails itself the document stays as it was.  At all times
\* lastRunStatus is 'error' iff lastRunErrorMessage is non-empty.
C31_FatalRunAnswers500 ==
    /\ []ErrorIffMessage
    /\ [][\A h \in HandlerIds :
            AnswersFatalRun(h) =>
                /\ handlers'[h].answered = 500
                /\ handlers'[h].runId = 0
                /\ runDocs' = runDocs
                /\ IF handlers'[h].wrote = "failed"
                   THEN /\ scraperDoc'.lastRunStatus = "error"
                        /\ scraperDoc'.lastRunErrorMessage = EngineMessage
                        /\ HasErrorMessage(scraperDoc')
                   ELSE scraperDoc' = scraperDoc]_vars

\* a request in which runScraper threw has answered 500 and the scraper
\* carries the error of the engine
C31_Witness ==
    \E h \in HandlerIds :
        /\ handlers[h].pc = "done"
        /\ handlers[h].engine = "threw"
        /\ handlers[h].wrote = "failed"
        /\ handlers[h].answered = 500
        /\ scraperDoc.lastRunStatus = "error"
        /\ scraperDoc.lastRunErrorMessage = EngineMessage

\* ---------------------------------------------------------------- C32
\* the lastRun fields of the scraper are those of run document id
DescribesRun(id) ==
    /\ id \in 1 .. Len(runDocs)
    /\ runDocs[id].status = scraperDoc.lastRunStatus
    /\ runDocs[id].itemCount = scraperDoc.lastRunItemCount
    /\ runDocs[id].runAt = scraperDoc.lastRunAt

\* C32: after any sequence of runs of a stored scraper, a lastRunId that is
\* set names a run document of scrapedData whose status, itemCount and runAt
\* are the scraper's lastRunStatus, lastRunItemCount and lastRunAt.
C32_LastRunIdNamesTheLastRun ==
    (scraperDoc # NoDocument /\ scraperDoc.lastRunId # 0) =>
        DescribesRun(scraperDoc.lastRunId)

\* ---------------------------------------------------------------- C33
\* both handlers have answered 200 to requests that were served side by side
BothCompleted ==
    \A h \in HandlerIds :
        /\ handlers[h].pc = "done"
        /\ handlers[h].answered = 200
        /\ handlers[h].overlap

\* run document id has the latest runAt of the collection
LatestRun(id) ==
    \A j \in 1 .. Len(runDocs) : runDocs[j].runAt <= runDocs[id].runAt

\* C33: when two run requests for the same scraper are served side by side
\* and both complete, lastRunAt, lastRunStatus, lastRunItemCount and lastRunId
\* describe one run, the one with the latest runAt of those inserted.
C33_LastRunIsTheLatest ==
    BothCompleted =>
        /\ DescribesRun(scraperDoc.lastRunId)
        /\ LatestRun(scraperDoc.lastRunId)

\* ---------------------------------------------------------------- C34
\* the smaller of two numbers
Min(a, b) == IF a <= b THEN a ELSE b

\* the test run answered 200 with the first min(5, n) records in their order
\* and the full count n
SampledInOrder ==
    LET n == Len(testRun.items)
    IN  /\ testRun.engineCalls = 1
        /\ testRun.itemCount = n
        /\ Len(testRun.data) = Min(MAX_SAMPLE_SIZE, n)
        /\ \A i \in 1 .. Min(MAX_SAMPLE_SIZE, n) :
             testRun.data[i] = testRun.items[i]

\* a JSON payload the schema of the test run does not accept
InvalidPayload(b) ==
    \/ Len(b.selectors) = 0
    \/ b.hasMaxDepth /\ b.maxDepth <= 0
    \/ LacksPaginationMember(ParseBody(b))
    \/ b.paginationEnabled = "true" /\ b.paginationNextSelector = <<>>

\* C34 as stated: a test run returns the first min(5, n) records in order
\* with itemCount = n, and every request whose payload is not a valid
\* test-run payload, a body that is no JSON included, is answered 400 without
\* the engine being invoked.
C34_Original ==
    testRun.pc = "done" =>
        /\ testRun.answered = 200 => SampledInOrder
        /\ (testRun.body = NoBody \/ InvalidPayload(testRun.body))
            => testRun.answered = 400 /\ testRun.engineCalls = 0

\* C34: a test run returns the first min(5, n) records in order with
\* itemCount = n; a JSON payload the schema rejects (pagination enabled
\* without nextSelector or maxDepth included) is answered 400 and a body that
\* is no JSON is answered 500, in both cases without the engine being invoked;
\* every other payload reaches the engine.
C34_SampleOfFiveAndInvalidRejected ==
    testRun.pc = "done" =>
        /\ testRun.answered = 200 => SampledInOrder
        /\ IF testRun.body = NoBody
           THEN testRun.answered = 500 /\ testRun.engineCalls = 0
           ELSE IF InvalidPayload(testRun.body)
           THEN testRun.answered = 400 /\ testRun.engineCalls = 0
           ELSE testRun.answered \in {200, 500} /\ testRun.engineCalls = 1

\* the engine returned more than five records, not all alike, and the test
\* run answered with the first five
C34_Witness ==
    /\ testRun.pc = "done"
    /\ testRun.answered = 200
    /\ Len(testRun.items) > MAX_SAMPLE_SIZE
    /\ testRun.items[1] # testRun.items[Len(testRun.items)]
    /\ testRun.itemCount = Len(testRun.items)
    /\ Len(testRun.data) = MAX_SAMPLE_SIZE

\* ---------------------------------------------------------------- C35
\* the MongoClients that are connected and were not closed
OpenClients == {k \in DOMAIN clients : clients[k].state = "connected"}

\* call c returns a connection in this step
Returns(c) ==
    /\ calls[c].pc # "done"
    /\ calls'[c].pc = "done"
    /\ ~calls'[c].threw

\* C35: over every sequence and interleaving of connectToDatabase calls, at
\* most one MongoClient is open and not closed at any time, and every call
\* that succeeds returns the client that is cached when it returns.
C35_AtMostOneOpenClient ==
    /\ [](Cardinality(OpenClients) <= 1)
    /\ [][\A c \in CallIds :
            Returns(c) => calls'[c].returned.client = cachedClient']_vars

\* ---------------------------------------------------------------- C36
\* client k is neither in the module cache nor on the global object
NotCached(k) ==
    /\ cachedClient # k
    /\ cachedDb # DbOf(k)
    /\ customGlobal.mongoClient # k
    /\ customGlobal.mongoDb # DbOf(k)

\* call c is in the catch block of a failed connect in this step
HandlesFailedConnect(c) ==
    \/ calls[c].pc = "connect" /\ calls'[c].pc = "close"
    \/ calls[c].pc = "close" /\ calls'[c].pc = "done"

\* call c starts in this step and finds nothing cached
StartsUncached(c) ==
    /\ calls[c].pc \in {"idle", "done"}
    /\ calls'[c].pc \notin {"idle", "done"}
    /\ cachedClient = Undefined

\* C36: a call whose client.connect() rejects closes that client and throws,
\* returning nothing; its steps leave cachedClient, cachedDb and the global
\* object as they are, the failed client is never cached nor returned, and a
\* call that starts with nothing cached creates a new client and connects it.
C36_FailedConnectNotCached ==
    /\ [](\A k \in DOMAIN clients : clients[k].failed => NotCached(k))
    /\ [](\A c \in CallIds :
            /\ (calls[c].pc = "done" /\ calls[c].threw) =>
                  /\ clients[calls[c].client].failed
                  /\ clients[calls[c].client].state = "closed"
                  /\ calls[c].returned = Undefined
            /\ (calls[c].pc = "done" /\ ~calls[c].threw) =>
                  \A k \in DOMAIN clients :
                      clients[k].failed => calls[c].returned.client # k)
    /\ [][\A c \in CallIds :
            /\ HandlesFailedConnect(c) =>
                  UNCHANGED <<cachedClient, cachedDb, customGlobal>>
            /\ StartsUncached(c) =>
                  /\ calls'[c].pc = "connect"
                  /\ calls'[c].client = Len(clients) + 1
                  /\ clients' = Append(clients, [state |-> "new",
                                                 failed |-> FALSE])]_vars

\* the first call failed to connect and closed its client; nothing is cached
\* and the next call of the same caller is connecting a new client
C36_Witness ==
    /\ calls[2].pc = "idle"
    /\ Len(clients) = 2
    /\ clients[1].failed /\ clients[1].state = "closed"
    /\ cachedClient = Undefined /\ customGlobal.mongoClient = Undefined
    /\ calls[1].pc = "connect" /\ calls[1].client = 2

\* ---------------------------------------------------------------- C37
\* text s begins with text p
StartsWith(s, p) == Len(s) >= Len(p) /\ SubSeq(s, 1, Len(p)) = p

\* text s has a character that is no blank
NonBlank(s) == \E i \in 1 .. Len(s) : s[i] # Blank

\* C37: in the wizard currentStep stays within 1..5 and the selector list is
\* never empty; from step 2 on the URL starts with http:// or https://; from
\* step 4 on every selector row has a non-blank field name and CSS selector
\* and, with pagination enabled, the next-page selector is non-blank and
\* maxDepth > 0.
C37_WizardStepsValidated ==
    /\ wizard.currentStep \in 1 .. 5
    /\ Len(wizard.selectors) >= 1
    /\ wizard.currentStep >= 2 =>
         \/ StartsWith(wizard.url, <<"h", "t", "t", "p", ":", "/", "/">>)
         \/ StartsWith(wizard.url, <<"h", "t", "t", "p", "s", ":", "/", "/">>)
    /\ wizard.currentStep >= 4 =>
         /\ \A i \in 1 .. Len(wizard.selectors) :
              /\ NonBlank(wizard.selectors[i].fieldName)
              /\ NonBlank(wizard.selectors[i].cssSelector)
         /\ wizard.paginationEnabled =>
              /\ NonBlank(wizard.paginationNextSelector)
              /\ wizard.maxDepth > 0

\* the last step is reached with two rows and pagination switched on, the
\* depth typed in by hand
C37_Witness ==
    /\ wizard.currentStep = 5
    /\ Len(wizard.selectors) = 2
    /\ wizard.paginationEnabled
    /\ wizard.maxDepth = 3

\* ---------------------------------------------------------------- C38
\* C38: for every scraper returned by GET /api/scrapers and shown on the
\* dashboard, each activation of its Run Now button has issued a POST to
\* /api/scrapers/{id}/run with the identifier of that scraper, and the run
\* state of a scraper whose POST was issued is loading, which disables its
\* button.
C38_RunNowPostsTheScraperId ==
    /\ posted = activated
    /\ \A i \in 1 .. Len(dashboard.scrapers) :
         scrapersDocs[i]._id \in dashboard.runStates =>
             RunNowDisabled(dashboard.scrapers[i])

====
